---- MODULE Spec2Model ----
(***************************************************************************)
(* Segment timeline engine of the media cutter: the time codec and the     *)
(* offset map of Home.vue, the language overlay (displaySegments) of       *)
(* Home.vue and the segment store operations of Editor.vue.                *)
(*                                                                         *)
(* Time values are real numbers of seconds in the program.  They are       *)
(* integers here, counted in ticks: TicksPerMs ticks make a millisecond,   *)
(* so that the rounding of toFixed(3) is visible.  A time string is the    *)
(* sequence of the numbers between its colons, each in ticks (the value    *)
(* parseFloat gives for that part).  Indices are 0-based as in the source; *)
(* a sequence s holds index i at s[i + 1].                                 *)
(***************************************************************************)
EXTENDS Integers, Sequences, FiniteSets, TLC

VARIABLES
    segments,         \* Home.vue: the "Original" store
    translations,     \* Home.vue: language name -> store
    currentLanguage,  \* Home.vue: the active language
    targetLanguage,   \* Home.vue: the language picked for translation ("" = none)
    isTranslating,    \* Home.vue: the flag translateTranscript sets around its request
    request,          \* the translate_transcript requests in flight: [lang, transcript] each
    editingIndex,     \* Editor.vue: index in edit mode, NULL when none
    tempSegment,      \* Editor.vue: <<>> (null) or <<the segment being edited>>
    selectedIndices,  \* Editor.vue: the multi-selection, a Set in insertion order
    tempShared,       \* Editor.vue: tempSegment is the very object props.segments[editingIndex]
    sidecar,          \* the segments in <inputPath>.transcript.json
    dialog,           \* the ask() dialog that is open: [kind, index, oldName, newName]
    typed,            \* number of fields typed into the edit form so far
    updates,          \* number of store mutations so far
    lastOp,           \* the handler that ran last and what it emitted
    tcOffsets,        \* time codec: processedAudio.offsets
    tcIn,             \* time codec: the input of the last call
    tcOut,            \* time codec: the output of the last call
    tcOp,             \* time codec: the last call
    status,           \* Home.vue: the status line
    isProcessing,     \* Home.vue: the flag of processFile, cutVideo, generateClips, exportClips
    progressPercentage, \* Home.vue: the percentage of the status bar (NULL = none)
    run,              \* the runs of those handlers that wait for a collaborator
    clips,            \* Home.vue: the clips
    lastExportPath,   \* Home.vue: the folder of the last export ("" = none)
    analysisSettings, \* Home.vue: context, glossary, speakerCount, removeFillerWords
    lastAnalyzedSettings, \* Home.vue: the settings of the last analysis or load
    useAdvancedAlignment, \* Home.vue: the alignment toggle
    inputPath,        \* Home.vue: the path of the media ("" = none)
    clipSelectedIndices, \* ClipList.vue: selectedIndices
    includeSubtitles, \* ClipList.vue: the subtitles checkbox
    lastEmit          \* the export event ClipList has emitted last, with its payload

homeVars   == <<segments, translations, currentLanguage, targetLanguage, isTranslating, request, sidecar>>
clipListVars == <<clipSelectedIndices, includeSubtitles>>
editorVars == <<editingIndex, tempSegment, selectedIndices, tempShared, clipListVars>>
uiVars     == <<homeVars, editorVars, dialog, typed, updates, lastOp>>
tcVars     == <<tcOffsets, tcIn, tcOut, tcOp>>
runButStatus == <<isProcessing, progressPercentage, run, clips, lastExportPath, analysisSettings,
                  lastAnalyzedSettings, useAdvancedAlignment, inputPath>>
runVars    == <<status, runButStatus>>
vars       == <<uiVars, tcVars, runVars, lastEmit>>

----------------------------------------------------------------------------
(* Bounds *)

TicksPerMs == 4       \* resolution of a time value below the millisecond
MaxHours   == 1       \* time values range over 0..MaxHours hours
MaxOffsets == 2       \* breakpoints in processedAudio.offsets
MaxSegs    == 3       \* segments of a loaded transcript
MaxTyped   == 1       \* fields typed into the edit form in one session
MaxRequests == 2       \* translate_transcript requests in flight at once
MaxTranslatedSegs == 2 \* segments of a transcript that has a translation
MaxRuns    == 2       \* runs that wait for a collaborator at once
MaxUpdates == 3       \* store mutations (updates and renames) in one session

Ms  == TicksPerMs
Sec == 1000 * Ms

NULL == -1

Max(a, b) == IF a >= b THEN a ELSE b
Min(a, b) == IF a <= b THEN a ELSE b

\* The refs of Home.vue around the runs, as they are declared; the media is
\* chosen and its settings are those of its last analysis.
DefaultSettings ==
    [context |-> "", glossary |-> "", speakerCount |-> NULL, removeFillerWords |-> FALSE]

\* Nothing was emitted
NoEmit == [event |-> "none", clips |-> <<>>, includeSubtitles |-> FALSE]

InitRun ==
    /\ status = "Initializing..."
    /\ isProcessing = FALSE
    /\ progressPercentage = NULL
    /\ run = <<>>
    /\ clips = <<>>
    /\ lastExportPath = ""
    /\ analysisSettings = DefaultSettings
    /\ lastAnalyzedSettings = DefaultSettings
    /\ useAdvancedAlignment = FALSE
    /\ inputPath = "a.mp4"
    /\ clipSelectedIndices = {}
    /\ includeSubtitles = TRUE
    /\ lastEmit = NoEmit

----------------------------------------------------------------------------
(* TimeCodec: parseTime and formatTime of Home.vue *)

\* Number.prototype.toFixed(3): the nearest millisecond, on a tie the one
\* farther from 0; the result is a number of ticks again.
toFixed3(x) ==
    IF x >= 0 THEN ((2 * x + Ms) \div (2 * Ms)) * Ms
    ELSE -(((2 * (-x) + Ms) \div (2 * Ms)) * Ms)

\* The % of JavaScript: the remainder has the sign of the dividend.
Rem(a, b) == IF a >= 0 THEN a % b ELSE -((-a) % b)

parseTime(timeStr) ==
    IF Len(timeStr) = 3
        THEN timeStr[1] * 3600 + timeStr[2] * 60 + timeStr[3]
    ELSE IF Len(timeStr) = 2
        THEN timeStr[1] * 60 + timeStr[2]
    ELSE timeStr[1]

\* formatTime without its hours branch
formatTimeNoHours(seconds) ==
    <<(Rem(seconds, 3600 * Sec) \div (60 * Sec)) * Sec, toFixed3(Rem(seconds, 60 * Sec))>>

formatTime(seconds) ==
    LET h == seconds \div (3600 * Sec)
        m == Rem(seconds, 3600 * Sec) \div (60 * Sec)
        s == toFixed3(Rem(seconds, 60 * Sec))
    IN  IF h > 0 THEN <<h * Sec, m * Sec, s>> ELSE <<m * Sec, s>>

----------------------------------------------------------------------------
(* OffsetMap: adjustTimestamp of Home.vue *)

\* The loop with the first breakpoint that qualifies taken instead of the last
RECURSIVE ScanOffsetsNoBreak(_, _, _, _)
ScanOffsetsNoBreak(t, offsets, i, offset) ==
    IF i > Len(offsets) THEN offset
    ELSE IF t >= offsets[i].min_time
        THEN offsets[i].offset
    ELSE ScanOffsetsNoBreak(t, offsets, i + 1, offset)

\* The for loop of adjustTimestamp from breakpoint i on, with the offset
\* found so far.
RECURSIVE ScanOffsets(_, _, _, _)
ScanOffsets(t, offsets, i, offset) ==
    IF i > Len(offsets) THEN offset
    ELSE IF t >= offsets[i].min_time
        THEN ScanOffsets(t, offsets, i + 1, offsets[i].offset)
    ELSE offset

adjustTimestamp(timeStr, offsets) ==
    LET t == parseTime(timeStr)
    IN  formatTime(t + ScanOffsets(t, offsets, 1, 0))

\* The remap with the end of a segment left on the compacted timeline
AdjustSegmentsStartOnly(parsed, offsets) ==
    [i \in 1..Len(parsed) |->
        [parsed[i] EXCEPT !.start = adjustTimestamp(parsed[i].start, offsets)]]

\* processFile, step 4: both fields of every parsed segment go through
\* adjustTimestamp with the offsets of the same ProcessedAudio.
AdjustSegments(parsed, offsets) ==
    [i \in 1..Len(parsed) |->
        [parsed[i] EXCEPT !.start = adjustTimestamp(parsed[i].start, offsets),
                          !.end   = adjustTimestamp(parsed[i].end, offsets)]]

----------------------------------------------------------------------------
(* Inputs of the time codec and the offset map *)

\* Seconds values x >= 0 below and above one hour, on and off the millisecond.
TimeValues ==
    {h * 3600 * Sec + m * 60 * Sec + s * Sec + ms * Ms + k :
        h \in 0..MaxHours, m \in {0, 59}, s \in {0, 20, 59}, ms \in {0, 999}, k \in 0..(Ms - 1)}

\* Breakpoints as remove_silence may return them.
Breakpoints ==
    [min_time : {0, 30 * Sec}, offset : {0, 5 * Sec, 5 * Sec + 1}]

SortedByMinTime(offsets) ==
    \A i \in 1..(Len(offsets) - 1) : offsets[i].min_time <= offsets[i + 1].min_time

OffsetLists ==
    {o \in UNION {[1..n -> Breakpoints] : n \in 0..MaxOffsets} : SortedByMinTime(o)}

\* Time strings as the transcription returns them: M:S, H:M:S and bare seconds.
RawTimeStrs ==
    { <<0, 20 * Sec>>, <<0, 30 * Sec>>, <<0, 40 * Sec>>, <<0, 29 * Sec + 999 * Ms + 1>>,
      <<40 * Sec>>, <<0, 0, 20 * Sec + 500 * Ms>>, <<Sec, 59 * Sec, 59 * Sec + 999 * Ms + (Ms - 1)>> }

RawSegments ==
    [start : RawTimeStrs, end : RawTimeStrs, speaker : {"A"}, text : {"w1"}]

ParsedResponses ==
    {<<>>} \cup {<<s>> : s \in RawSegments}
           \cup {<<s, [start |-> <<0, 40 * Sec>>, end |-> <<40 * Sec>>, speaker |-> "B", text |-> "w2"]>> :
                    s \in {r \in RawSegments : r.end = <<0, 30 * Sec>>}}

----------------------------------------------------------------------------
(* The time codec and the offset map as a state machine: remove_silence has *)
(* returned tcOffsets; each step is one call.                              *)

InitTime ==
    /\ tcOffsets \in OffsetLists
    /\ tcIn = <<>>
    /\ tcOut = <<>>
    /\ tcOp = "none"
    /\ InitRun
    /\ segments = <<>>
    /\ sidecar = <<>>
    /\ translations = [l \in {} |-> <<>>]
    /\ currentLanguage = "Original"
    /\ targetLanguage = ""
    /\ isTranslating = FALSE
    /\ request = <<>>
    /\ editingIndex = NULL
    /\ tempSegment = <<>>
    /\ tempShared = FALSE
    /\ selectedIndices = <<>>
    /\ dialog = [kind |-> "none", index |-> NULL, oldName |-> "", newName |-> ""]
    /\ typed = 0
    /\ updates = 0
    /\ lastOp = [op |-> "none", emitted |-> 0, threw |-> FALSE, len |-> 0]

\* formatTime(x)
FormatTimeCall ==
    \E x \in TimeValues :
        /\ tcOp' = "formatTime"
        /\ tcIn' = <<x>>
        /\ tcOut' = <<formatTime(x)>>
        /\ UNCHANGED <<tcOffsets, uiVars, runVars, lastEmit>>

\* processFile, step 4, on the parsed response of analyze_audio
ProcessFileRemap ==
    \E parsed \in ParsedResponses :
        /\ tcOp' = "remap"
        /\ tcIn' = parsed
        /\ tcOut' = AdjustSegments(parsed, tcOffsets)
        /\ UNCHANGED <<tcOffsets, uiVars, runVars, lastEmit>>

NextTime ==
    \/ FormatTimeCall
    \/ ProcessFileRemap

----------------------------------------------------------------------------
(* JavaScript arrays and sets, as Editor.vue uses them *)

\* Array.prototype.splice(start, deleteCount, ...items) on a copy of arr,
\* for start >= 0: start and deleteCount are clamped to the array.
Splice(arr, start, deleteCount, items) ==
    LET from == Min(start, Len(arr))
        cnt  == Max(0, Min(deleteCount, Len(arr) - from))
    IN  SubSeq(arr, 1, from) \o items \o SubSeq(arr, from + cnt + 1, Len(arr))

\* What an index past the end of an array reads, and what fills the holes of
\* an array that was extended by an assignment past its end.
Undefined == [start |-> <<>>, end |-> <<>>, speaker |-> "undefined", text |-> "undefined"]

\* copy[index] = value on a copy of arr
SetAt(arr, index, value) ==
    [i \in 1..Max(Len(arr), index + 1) |->
        IF i = index + 1 THEN value
        ELSE IF i <= Len(arr) THEN arr[i]
        ELSE Undefined]

SetMax(S) == CHOOSE x \in S : \A y \in S : y <= x
SetMin(S) == CHOOSE x \in S : \A y \in S : x <= y

Range(s) == {s[k] : k \in 1..Len(s)}

\* A Set of indices is the sequence of its members in insertion order.
Has(set, index) == index \in Range(set)
Add(set, index) == IF Has(set, index) THEN set ELSE Append(set, index)
Delete(set, index) == SelectSeq(set, LAMBDA x : x # index)

\* Array.from(set).sort((a, b) => a - b)
RECURSIVE SortAscending(_)
SortAscending(set) ==
    IF set = <<>> THEN <<>>
    ELSE <<SetMin(Range(set))>> \o SortAscending(Delete(set, SetMin(Range(set))))

\* Array.from(set).sort((a, b) => b - a)
RECURSIVE SortDescending(_)
SortDescending(set) ==
    IF set = <<>> THEN <<>>
    ELSE <<SetMax(Range(set))>> \o SortDescending(Delete(set, SetMax(Range(set))))

\* strings.join(' ')
RECURSIVE JoinWithSpace(_)
JoinWithSpace(strings) ==
    IF Len(strings) = 0 THEN ""
    ELSE IF Len(strings) = 1 THEN strings[1]
    ELSE strings[1] \o " " \o JoinWithSpace(Tail(strings))

----------------------------------------------------------------------------
(* SegmentStore: the sequences the handlers of Editor.vue build and emit   *)

\* saveEdit with the edited segment moved to the end
SaveEditReorders(segs, index, temp) == Splice(segs, index, 1, <<>>) \o <<temp>>

\* saveEdit: newSegments[editingIndex] = tempSegment
SaveEditSegments(segs, index, temp) == SetAt(segs, index, temp)

\* deleteSegment with splice(index): everything from index on removed
DeleteSegmentToEnd(segs, index) == SubSeq(segs, 1, Min(index, Len(segs)))

\* deleteSegment: newSegments.splice(index, 1)
DeleteSegmentSegments(segs, index) == Splice(segs, index, 1, <<>>)

\* deleteSelected: for (const i of indices) newSegments.splice(i, 1)
RECURSIVE SpliceEach(_, _)
SpliceEach(segs, indices) ==
    IF indices = <<>> THEN segs
    ELSE SpliceEach(Splice(segs, Head(indices), 1, <<>>), Tail(indices))

\* deleteSelected with the indices removed in ascending order
DeleteSelectedAscending(segs, selected) == SpliceEach(segs, SortAscending(selected))

DeleteSelectedSegments(segs, selected) == SpliceEach(segs, SortDescending(selected))

\* mergeSelected reads props.segments[i] of every selected index: an index
\* past the end reads undefined, and reading a field of it throws.
MergeSelectedThrows(segs, selected) == \E i \in Range(selected) : i >= Len(segs)

\* [...indices].reverse()
Reverse(indices) == [k \in 1..Len(indices) |-> indices[Len(indices) + 1 - k]]

\* mergeSelected with newSegments.push(merged) after the removals
MergeIndicesPushed(segs, indices) ==
    LET first   == segs[indices[1] + 1]
        last    == segs[indices[Len(indices)] + 1]
        merged  == [start   |-> first.start,
                    end     |-> last.end,
                    speaker |-> first.speaker,
                    text    |-> JoinWithSpace([k \in 1..Len(indices) |-> segs[indices[k] + 1].text])]
    IN  SpliceEach(segs, Reverse(indices)) \o <<merged>>

\* mergeSelected from the array of indices on: the merged segment, then the
\* removals from the last index to the first and the insertion at the first
MergeIndices(segs, indices) ==
    LET first   == segs[indices[1] + 1]
        last    == segs[indices[Len(indices)] + 1]
        merged  == [start   |-> first.start,
                    end     |-> last.end,
                    speaker |-> first.speaker,
                    text    |-> JoinWithSpace([k \in 1..Len(indices) |-> segs[indices[k] + 1].text])]
    IN  Splice(SpliceEach(segs, Reverse(indices)), indices[1], 0, <<merged>>)

\* mergeSelected without its sort: the indices in the order of the clicks
MergeSelectedInsertionOrder(segs, selected) == MergeIndices(segs, selected)

\* mergeSelected over everything between the first and the last selected
MergeSelectedAsRange(segs, selected) ==
    LET lo == SetMin(Range(selected))
        hi == SetMax(Range(selected))
    IN  MergeIndices(segs, [k \in 1..(hi - lo + 1) |-> lo + k - 1])

MergeSelectedSegments(segs, selected) == MergeIndices(segs, SortAscending(selected))

\* mergeDown with splice(index, 1, merged): the next segment left in place
MergeDownKeepsNext(segs, index) ==
    LET current == segs[index + 1]
        next    == segs[index + 2]
        merged  == [start   |-> current.start,
                    end     |-> next.end,
                    speaker |-> current.speaker,
                    text    |-> current.text \o " " \o next.text]
    IN  Splice(segs, index, 1, <<merged>>)

\* mergeDown: newSegments.splice(index, 2, merged)
MergeDownSegments(segs, index) ==
    LET current == segs[index + 1]
        next    == segs[index + 2]
        merged  == [start   |-> current.start,
                    end     |-> next.end,
                    speaker |-> current.speaker,
                    text    |-> current.text \o " " \o next.text]
    IN  Splice(segs, index, 2, <<merged>>)

\* renameSpeaker with the first segment of the speaker relabelled only
RenameSpeakerFirstOnly(segs, oldName, trimmedNewName) ==
    [i \in 1..Len(segs) |->
        IF segs[i].speaker = oldName /\ (\A j \in 1..(i - 1) : segs[j].speaker # oldName)
          THEN [segs[i] EXCEPT !.speaker = trimmedNewName] ELSE segs[i]]

\* renameSpeaker: segments.value.map(...)
RenameSpeakerSegments(segs, oldName, trimmedNewName) ==
    [i \in 1..Len(segs) |->
        IF segs[i].speaker = oldName THEN [segs[i] EXCEPT !.speaker = trimmedNewName] ELSE segs[i]]

\* saveTranscript with segments.value = segs: the segments in the sidecar
\* afterwards; nothing is written for an empty store, and a failed
\* write_text_file is only logged.
saveTranscript(segs, written) ==
    IF Len(segs) = 0 \/ ~written THEN sidecar ELSE segs

\* uniqueSpeakers
uniqueSpeakers == {segments[i].speaker : i \in 1..Len(segments)}

----------------------------------------------------------------------------
(* LanguageOverlay: displaySegments of Home.vue *)

Original == "Original"

\* displaySegments.get
displaySegments ==
    IF currentLanguage = Original THEN segments
    ELSE IF currentLanguage \in DOMAIN translations THEN translations[currentLanguage]
    ELSE segments

\* displaySegments.set with segments.value = newSegments in both branches
SetDisplaySegmentsBoth(newSegments) == newSegments

\* displaySegments.set: the store of the Original after the assignment
SetDisplaySegmentsOriginal(newSegments) ==
    IF currentLanguage = Original THEN newSegments ELSE segments

\* displaySegments.set: the translations after the assignment
SetDisplaySegmentsTranslations(newSegments) ==
    IF currentLanguage = Original THEN translations
    ELSE [l \in DOMAIN translations \cup {currentLanguage} |->
            IF l = currentLanguage THEN newSegments ELSE translations[l]]

----------------------------------------------------------------------------
(* Inputs of the session *)

Speakers == {"A", "B"}

\* The languages of SUPPORTED_LANGUAGES the user picks from
SUPPORTED_LANGUAGES == {"German"}

\* The i-th segment of a transcript as it is loaded: ten seconds apart,
\* eight seconds long, with a text of its own, the speakers A and B in turn.
LoadedSegment(i) ==
    [start   |-> formatTime((i - 1) * 10 * Sec),
     end     |-> formatTime((i - 1) * 10 * Sec + 8 * Sec),
     speaker |-> IF i % 2 = 1 THEN "A" ELSE "B",
     text    |-> "w" \o ToString(i)]

LoadedTranscripts == {[i \in 1..n |-> LoadedSegment(i)] : n \in 0..MaxSegs}

\* The fields of the edit form; the user types a new start ("01:30.000"), a
\* new end ("00:00.000"), a new speaker or a new text into one of them.
TypedFields == {"start", "end", "speaker", "text"}

SetField(seg, typedField) ==
    IF typedField = "start" THEN [seg EXCEPT !.start = formatTime(90 * Sec)]
    ELSE IF typedField = "end" THEN [seg EXCEPT !.end = formatTime(0)]
    ELSE IF typedField = "speaker" THEN [seg EXCEPT !.speaker = "C"]
    ELSE [seg EXCEPT !.text = "edited"]

\* What the user types into a speaker's name field.
TypedNames == {"B", " C ", "  "}

\* String.prototype.trim on the typed names
Trim(name) == IF name = " C " THEN "C" ELSE IF name = "  " THEN "" ELSE name

\* What a collaborator that answers with text (translate_transcript,
\* analyze_audio, generate_clips) does: it rejects, or it answers with a
\* text without a bracketed region, with a bracketed region that JSON.parse
\* rejects, or with a bracketed region that parses.
AiResponses == {"rejected", "noJson", "unparsable", "array"}

\* A match of anything the collaborator answers with
MatchesAnyAnswer(response) == response # "rejected"

\* response.match(/\[[\s\S]*\]/) finds a region
JsonMatch(response) == response \in {"unparsable", "array"}

\* The bracketed region taken for an array without JSON.parse
MatchTakenForArray(response) == JsonMatch(response)

\* The region is found and JSON.parse gives a value, which is an array since
\* the region starts with a bracket.
ParsesToArray(response) == response = "array"

\* The arrays translate_transcript answers with for a transcript: every
\* segment translated, or the same with the last segment missing.
TranslatedSegment(seg, lang) ==
    [seg EXCEPT !.text = lang \o ":" \o seg.text]

TranslateResponses(transcript, lang) ==
    LET all == [i \in 1..Len(transcript) |-> TranslatedSegment(transcript[i], lang)]
    IN  {all, SubSeq(all, 1, Len(all) - 1)}

----------------------------------------------------------------------------
(* State *)

NoDialog == [kind |-> "none", index |-> NULL, oldName |-> "", newName |-> ""]

\* The record of the handler that ran last: the number of update:segments
\* events it emitted, whether it ended in an exception, and the length of
\* props.segments when it emitted.
Op(name, emitted, threw) ==
    [op |-> name, emitted |-> emitted, threw |-> threw,
     len |-> IF emitted = 1 THEN Len(displaySegments) ELSE 0]

Init ==
    /\ segments \in LoadedTranscripts
    /\ sidecar = segments
    /\ translations = [l \in {} |-> <<>>]
    /\ currentLanguage = Original
    /\ targetLanguage = ""
    /\ isTranslating = FALSE
    /\ request = <<>>
    /\ editingIndex = NULL
    /\ tempSegment = <<>>
    /\ tempShared = FALSE
    /\ selectedIndices = <<>>
    /\ dialog = NoDialog
    /\ typed = 0
    /\ updates = 0
    /\ lastOp = Op("none", 0, FALSE)
    /\ tcOffsets = <<>>
    /\ tcIn = <<>>
    /\ tcOut = <<>>
    /\ tcOp = "none"
    /\ InitRun

\* The transcript section of Home.vue, the Editor in it, is rendered only
\* while the Original store is not empty (v-if="segments.length > 0").
EditorMounted == Len(segments) > 0

\* No ask() dialog is open: the user can act on the window.
Interactive == EditorMounted /\ dialog.kind = "none"

Rows == 0..(Len(displaySegments) - 1)

\* The rows in display mode, which carry the Edit, Merge and Del buttons.
DisplayRows == Rows \ {editingIndex}

\* tempSegment.value = props.segments[index]: the segment of the store itself
AssignsSegmentItself == FALSE

\* { ...props.segments[index] } is a new object with the fields of the
\* segment, not the segment of the store itself.
SpreadIsNewObject == TRUE

\* The edit form is rendered on the row editingIndex when tempSegment is set.
EditFormShown == editingIndex \in Rows /\ tempSegment # <<>>

\* emit('update:segments', newSegments) into @update:segments="displaySegments = $event"
Emit(newSegments) ==
    /\ segments' = SetDisplaySegmentsOriginal(newSegments)
    /\ translations' = SetDisplaySegmentsTranslations(newSegments)

\* The state of the Editor after a handler: a fresh component once the
\* section was removed.
EditorBecomes(index, temp, selected) ==
    /\ editingIndex' = IF Len(segments') = 0 THEN NULL ELSE index
    /\ tempSegment' = IF Len(segments') = 0 THEN <<>> ELSE temp
    /\ selectedIndices' = IF Len(segments') = 0 THEN <<>> ELSE selected
    /\ tempShared' = IF Len(segments') = 0 \/ temp = <<>> THEN FALSE ELSE tempShared
    /\ clipSelectedIndices' = IF Len(segments') = 0 THEN {} ELSE clipSelectedIndices
    /\ includeSubtitles' = IF Len(segments') = 0 THEN TRUE ELSE includeSubtitles

----------------------------------------------------------------------------
(* Editor.vue: the handlers *)

\* Number of a part that is missing
NaN == -3

\* parseTime of Editor.vue: [mm, ss] = timeStr.split(':').map(Number);
\* mm * 60 + ss
EditorParseTime(timeStr) ==
    IF Len(timeStr) >= 2 THEN timeStr[1] * 60 + timeStr[2] ELSE NaN

\* handleSegmentClick(index, event): a shift-click toggles the selection,
\* a plain click jumps to the start of the segment.
handleSegmentClick(index, shiftKey) ==
    /\ Interactive
    /\ index \in Rows
    /\ selectedIndices' =
          IF ~shiftKey THEN selectedIndices
          ELSE IF Has(selectedIndices, index) THEN Delete(selectedIndices, index)
          ELSE Add(selectedIndices, index)
    /\ lastOp' =
          IF shiftKey THEN Op("select", 0, FALSE)
          ELSE [op |-> "jumpTo", emitted |-> 0, threw |-> FALSE, len |-> 0,
                time |-> EditorParseTime(displaySegments[index + 1].start)]
    /\ UNCHANGED <<homeVars, editingIndex, tempSegment, tempShared, clipListVars, dialog, typed, updates, tcVars, runVars, lastEmit>>

\* The Cancel button of the selection toolbar: selectedIndices.clear()
clearSelection ==
    /\ Interactive
    /\ Len(selectedIndices) > 0
    /\ selectedIndices' = <<>>
    /\ lastOp' = Op("clearSelection", 0, FALSE)
    /\ UNCHANGED <<homeVars, editingIndex, tempSegment, tempShared, clipListVars, dialog, typed, updates, tcVars, runVars, lastEmit>>

\* startEditing(index): tempSegment becomes { ...props.segments[index] }
startEditing(index) ==
    /\ Interactive
    /\ index \in DisplayRows
    /\ editingIndex' = index
    /\ tempSegment' = <<displaySegments[index + 1]>>
    /\ tempShared' = ~SpreadIsNewObject
    /\ lastOp' = Op("startEditing", 0, FALSE)
    /\ UNCHANGED <<homeVars, selectedIndices, clipListVars, dialog, typed, updates, tcVars, runVars, lastEmit>>

\* v-model of the inputs of the edit form: the field of the object
\* tempSegment is assigned, which shows in the store when that object is an
\* element of props.segments.
typeInEditForm(typedField) ==
    /\ Interactive
    /\ EditFormShown
    /\ typed < MaxTyped
    /\ typed' = typed + 1
    /\ tempSegment' = <<SetField(tempSegment[1], typedField)>>
    /\ IF tempShared
         THEN /\ segments' = SetDisplaySegmentsOriginal(
                                SetAt(displaySegments, editingIndex, SetField(tempSegment[1], typedField)))
              /\ translations' = SetDisplaySegmentsTranslations(
                                SetAt(displaySegments, editingIndex, SetField(tempSegment[1], typedField)))
         ELSE UNCHANGED <<segments, translations>>
    /\ lastOp' = Op("typeInEditForm", 0, FALSE)
    /\ UNCHANGED <<currentLanguage, targetLanguage, isTranslating, request, sidecar,
                   editingIndex, selectedIndices, tempShared, clipListVars, dialog, updates, tcVars,
                   runVars, lastEmit>>

cancelEdit ==
    /\ Interactive
    /\ EditFormShown
    /\ editingIndex' = NULL
    /\ tempSegment' = <<>>
    /\ tempShared' = FALSE
    /\ lastOp' = Op("cancelEdit", 0, FALSE)
    /\ UNCHANGED <<homeVars, selectedIndices, clipListVars, dialog, typed, updates, tcVars, runVars, lastEmit>>

saveEdit ==
    /\ Interactive
    /\ updates < MaxUpdates
    /\ EditFormShown
    /\ IF editingIndex # NULL /\ tempSegment # <<>>
         THEN /\ Emit(SaveEditSegments(displaySegments, editingIndex, tempSegment[1]))
              /\ EditorBecomes(NULL, <<>>, selectedIndices)
              /\ lastOp' = Op("saveEdit", 1, FALSE)
              /\ updates' = updates + 1
         ELSE /\ lastOp' = Op("saveEdit", 0, FALSE)
              /\ UNCHANGED updates
              /\ UNCHANGED <<segments, translations, editorVars>>
    /\ UNCHANGED <<currentLanguage, targetLanguage, isTranslating, request, sidecar, dialog, typed, tcVars, runVars, lastEmit>>

\* deleteSegment(index) up to its await ask(...)
deleteSegment(index) ==
    /\ Interactive
    /\ updates < MaxUpdates
    /\ index \in DisplayRows
    /\ dialog' = [NoDialog EXCEPT !.kind = "deleteSegment", !.index = index]
    /\ lastOp' = Op("ask", 0, FALSE)
    /\ UNCHANGED <<homeVars, editorVars, typed, updates, tcVars, runVars, lastEmit>>

\* deleteSegment(index) from the answer of the dialog on
deleteSegmentAnswer(confirmed) ==
    /\ dialog.kind = "deleteSegment"
    /\ dialog' = NoDialog
    /\ IF confirmed
         THEN /\ Emit(DeleteSegmentSegments(displaySegments, dialog.index))
              /\ EditorBecomes(editingIndex, tempSegment, selectedIndices)
              /\ lastOp' = Op("deleteSegment", 1, FALSE)
              /\ updates' = updates + 1
         ELSE /\ lastOp' = Op("deleteSegment", 0, FALSE)
              /\ UNCHANGED updates
              /\ UNCHANGED <<segments, translations, editorVars>>
    /\ UNCHANGED <<currentLanguage, targetLanguage, isTranslating, request, sidecar, typed, tcVars, runVars, lastEmit>>

\* deleteSelected up to its await ask(...)
deleteSelected ==
    /\ Interactive
    /\ updates < MaxUpdates
    /\ Len(selectedIndices) > 0
    /\ dialog' = [NoDialog EXCEPT !.kind = "deleteSelected"]
    /\ lastOp' = Op("ask", 0, FALSE)
    /\ UNCHANGED <<homeVars, editorVars, typed, updates, tcVars, runVars, lastEmit>>

\* deleteSelected from the answer of the dialog on
deleteSelectedAnswer(confirmed) ==
    /\ dialog.kind = "deleteSelected"
    /\ dialog' = NoDialog
    /\ IF confirmed
         THEN /\ Emit(DeleteSelectedSegments(displaySegments, selectedIndices))
              /\ EditorBecomes(editingIndex, tempSegment, <<>>)
              /\ lastOp' = Op("deleteSelected", 1, FALSE)
              /\ updates' = updates + 1
         ELSE /\ lastOp' = Op("deleteSelected", 0, FALSE)
              /\ UNCHANGED updates
              /\ UNCHANGED <<segments, translations, editorVars>>
    /\ UNCHANGED <<currentLanguage, targetLanguage, isTranslating, request, sidecar, typed, tcVars, runVars, lastEmit>>

mergeSelected ==
    /\ Interactive
    /\ updates < MaxUpdates
    /\ Len(selectedIndices) > 0
    /\ IF Len(SortAscending(selectedIndices)) < 2
         THEN /\ lastOp' = Op("mergeSelected", 0, FALSE)
              /\ UNCHANGED updates
              /\ UNCHANGED <<segments, translations, editorVars>>
       ELSE IF MergeSelectedThrows(displaySegments, selectedIndices)
         THEN /\ lastOp' = Op("mergeSelected", 0, TRUE)
              /\ UNCHANGED updates
              /\ UNCHANGED <<segments, translations, editorVars>>
       ELSE /\ Emit(MergeSelectedSegments(displaySegments, selectedIndices))
            /\ EditorBecomes(editingIndex, tempSegment, <<>>)
            /\ lastOp' = Op("mergeSelected", 1, FALSE)
            /\ updates' = updates + 1
    /\ UNCHANGED <<currentLanguage, targetLanguage, isTranslating, request, sidecar, dialog, typed, tcVars, runVars, lastEmit>>

\* mergeDown(index); the Merge button is rendered on every row in display
\* mode but the last, and the handler returns at once on the last.
mergeDown(index) ==
    /\ Interactive
    /\ updates < MaxUpdates
    /\ index \in DisplayRows
    /\ IF index >= Len(displaySegments) - 1
         THEN /\ lastOp' = Op("mergeDown", 0, FALSE)
              /\ UNCHANGED updates
              /\ UNCHANGED <<segments, translations, editorVars>>
         ELSE /\ Emit(MergeDownSegments(displaySegments, index))
              /\ EditorBecomes(editingIndex, tempSegment, selectedIndices)
              /\ lastOp' = Op("mergeDown", 1, FALSE)
              /\ updates' = updates + 1
    /\ UNCHANGED <<currentLanguage, targetLanguage, isTranslating, request, sidecar, dialog, typed, tcVars, runVars, lastEmit>>

----------------------------------------------------------------------------
(* Home.vue: the handlers *)

\* v-model="currentLanguage" of the language selector: Original and one
\* option per translation.
changeLanguage(lang) ==
    /\ Interactive
    /\ lang \in {Original} \cup DOMAIN translations
    /\ lang # currentLanguage
    /\ currentLanguage' = lang
    /\ lastOp' = Op("changeLanguage", 0, FALSE)
    /\ UNCHANGED <<segments, translations, targetLanguage, isTranslating, request, sidecar,
                   editorVars, dialog, typed, updates, tcVars, runVars, lastEmit>>

selectLanguage(langName) ==
    /\ Interactive
    /\ langName \in SUPPORTED_LANGUAGES
    /\ targetLanguage' = langName
    /\ currentLanguage' = IF langName \in DOMAIN translations THEN langName ELSE currentLanguage
    /\ lastOp' = Op("selectLanguage", 0, FALSE)
    /\ UNCHANGED <<segments, translations, isTranslating, request, sidecar,
                   editorVars, dialog, typed, updates, tcVars, runVars, lastEmit>>

\* The translate button with :disabled="!targetLanguage || !!translations[targetLanguage]"
TranslateButtonIgnoresFlag ==
    targetLanguage = "" \/ targetLanguage \in DOMAIN translations

\* :disabled="isTranslating || !targetLanguage || !!translations[targetLanguage]"
TranslateButtonDisabled ==
    isTranslating \/ targetLanguage = "" \/ targetLanguage \in DOMAIN translations

\* translateTranscript without its finally block: the flag as it stands
IsTranslatingNoFinally == isTranslating

\* finally { isTranslating.value = false }
IsTranslatingFinally == FALSE

\* translateTranscript gets to its invoke("translate_transcript") for the
\* target language: it has returned before when there is no target language
\* or no segment, and when the language has its translation.
TranslateIssuesRequest(target) ==
    /\ ~(target = "" \/ Len(segments) = 0)
    /\ target \notin DOMAIN translations

\* translateTranscript, called by a click on the translate button, up to its
\* await invoke("translate_transcript"), or to its end when it returns early.
translateTranscript ==
    /\ Interactive
    /\ ~TranslateButtonDisabled
    /\ Len(request) < MaxRequests
    /\ IF TranslateIssuesRequest(targetLanguage)
         THEN /\ isTranslating' = TRUE
              /\ status' = "Translating"
              /\ request' = Append(request, [lang |-> targetLanguage, transcript |-> segments])
              /\ UNCHANGED currentLanguage
       ELSE IF targetLanguage = "" \/ Len(segments) = 0
         THEN UNCHANGED <<currentLanguage, isTranslating, request, status>>
         ELSE /\ currentLanguage' = targetLanguage
              /\ UNCHANGED <<isTranslating, request, status>>
    /\ lastOp' = Op("translateTranscript", 0, FALSE)
    /\ UNCHANGED <<segments, translations, targetLanguage, sidecar,
                   editorVars, dialog, typed, updates, tcVars, runButStatus, lastEmit>>

\* translateTranscript from the answer of a translate_transcript request on:
\* a parsed array is installed, anything else is caught and shown in status.
translateTranscriptAnswer(k, response) ==
    /\ k \in 1..Len(request)
    /\ IF ParsesToArray(response)
         THEN \E parsed \in TranslateResponses(request[k].transcript, request[k].lang) :
                /\ translations' = [l \in DOMAIN translations \cup {request[k].lang} |->
                                      IF l = request[k].lang THEN parsed ELSE translations[l]]
                /\ currentLanguage' = request[k].lang
                /\ status' = "Translation complete"
         ELSE /\ status' = "Translation failed"
              /\ UNCHANGED <<translations, currentLanguage>>
    /\ request' = Splice(request, k - 1, 1, <<>>)
    /\ isTranslating' = IsTranslatingFinally
    /\ lastOp' = Op("translateTranscriptDone", 0, FALSE)
    /\ UNCHANGED <<segments, targetLanguage, sidecar, editorVars, dialog, typed, updates,
                   tcVars, runButStatus, lastEmit>>

translateTranscriptDone ==
    \E k \in 1..MaxRequests, response \in AiResponses : translateTranscriptAnswer(k, response)

\* renameSpeaker(oldName, newName, inputElement) up to its await ask(...),
\* or to its end when it does not ask.
renameSpeaker(oldName, newName) ==
    /\ Interactive
    /\ updates < MaxUpdates
    /\ oldName \in uniqueSpeakers
    /\ newName \in TypedNames
    /\ IF oldName = Trim(newName) \/ Trim(newName) = ""
         THEN /\ lastOp' = Op("renameSpeaker", 0, FALSE)
              /\ UNCHANGED updates
              /\ UNCHANGED <<segments, sidecar, dialog>>
       ELSE IF Trim(newName) \in uniqueSpeakers
         THEN /\ dialog' = [NoDialog EXCEPT !.kind = "renameSpeaker", !.oldName = oldName,
                                            !.newName = Trim(newName)]
              /\ lastOp' = Op("ask", 0, FALSE)
              /\ UNCHANGED updates
              /\ UNCHANGED <<segments, sidecar>>
       ELSE /\ segments' = RenameSpeakerSegments(segments, oldName, Trim(newName))
            /\ \E written \in BOOLEAN :
                  sidecar' = saveTranscript(RenameSpeakerSegments(segments, oldName, Trim(newName)), written)
            /\ lastOp' = Op("renameSpeaker", 0, FALSE)
            /\ updates' = updates + 1
            /\ UNCHANGED dialog
    /\ UNCHANGED <<translations, currentLanguage, targetLanguage, isTranslating, request,
                   editorVars, typed, tcVars, runVars, lastEmit>>

\* renameSpeaker from the answer of the merge dialog on
renameSpeakerAnswer(confirmed) ==
    /\ dialog.kind = "renameSpeaker"
    /\ dialog' = NoDialog
    /\ IF confirmed
         THEN /\ segments' = RenameSpeakerSegments(segments, dialog.oldName, dialog.newName)
              /\ \E written \in BOOLEAN :
                    sidecar' = saveTranscript(
                                 RenameSpeakerSegments(segments, dialog.oldName, dialog.newName), written)
              /\ lastOp' = Op("renameSpeaker", 0, FALSE)
              /\ updates' = updates + 1
         ELSE /\ lastOp' = Op("renameSpeaker", 0, FALSE)
              /\ UNCHANGED updates
              /\ UNCHANGED <<segments, sidecar>>
    /\ UNCHANGED <<translations, currentLanguage, targetLanguage, isTranslating, request,
                   editorVars, typed, tcVars, runVars, lastEmit>>

----------------------------------------------------------------------------
(* Home.vue: processFile and generateClips *)

hasApiKey == TRUE
hasTranscript == Len(segments) > 0
settingsChanged == analysisSettings # lastAnalyzedSettings

\* :disabled="isProcessing || !hasApiKey || (hasTranscript && !settingsChanged)"
ProcessButtonDisabled ==
    isProcessing \/ ~hasApiKey \/ (hasTranscript /\ ~settingsChanged)

\* A handler that waits for a collaborator: the handler, the await it is at,
\* processedAudio.offsets, the transcript or the clips it has sent, and the
\* inputPath.value it was started with.
Run(fn, step, offsets, sent) ==
    [fn |-> fn, step |-> step, offsets |-> offsets, sent |-> sent, media |-> inputPath]

\* The run k at its next await
RunStep(k, step, offsets, sent) ==
    [Run(run[k].fn, step, offsets, sent) EXCEPT !.media = run[k].media]

\* The end of a handler without its finally block
RunEndsWithoutFinally(k) ==
    /\ run' = Splice(run, k - 1, 1, <<>>)
    /\ UNCHANGED <<isProcessing, progressPercentage>>

\* finally { isProcessing.value = false; progressPercentage.value = null }
RunEnds(k) ==
    /\ run' = Splice(run, k - 1, 1, <<>>)
    /\ isProcessing' = FALSE
    /\ progressPercentage' = NULL

\* The offsets remove_silence answers with
AnalysisOffsets ==
    {o \in OffsetLists : Len(o) = 0 \/ (Len(o) = 1 /\ o[1].offset = 5 * Sec)}

\* An element of the answer of analyze_audio with a start and an end only,
\* and one that has no start and no end.
SegmentWithoutText ==
    [start |-> formatTime(0), end |-> formatTime(8 * Sec), speaker |-> "undefined",
     text |-> "undefined"]

\* The arrays in the answer of analyze_audio
AnalysisArrays ==
    LoadedTranscripts \cup {<<SegmentWithoutText>>, <<LoadedSegment(1), Undefined>>}

\* parseTime(seg.start) of a start that is no string throws a TypeError.
RemapThrows(parsed) ==
    \E i \in 1..Len(parsed) : parsed[i].start = <<>> \/ parsed[i].end = <<>>

\* What align_transcript answers with for a transcript: every segment moved
\* by a tenth of a second.
AlignedSegments(transcript) ==
    [i \in 1..Len(transcript) |->
        [transcript[i] EXCEPT !.start = formatTime(parseTime(@) + 100 * Ms),
                              !.end = formatTime(parseTime(@) + 100 * Ms)]]

\* A clip of the answer of generate_clips: with its segments, with a start
\* and an end only, or with a text where its segments should be.  segmentsIs
\* is what c.segments is: an array, undefined, or a string; a start or an
\* end that is undefined is <<>>.
ClipWithSegments ==
    [segments |-> <<[start |-> formatTime(2 * Sec), end |-> formatTime(12 * Sec)]>>,
     segmentsIs |-> "array", start |-> <<>>, end |-> <<>>, title |-> "t1", reason |-> "r1"]

ClipWithStartAndEnd ==
    [segments |-> <<>>, segmentsIs |-> "undefined", start |-> formatTime(11 * Sec),
     end |-> formatTime(25 * Sec), title |-> "t2", reason |-> "r2"]

ClipWithSegmentsText ==
    [segments |-> <<>>, segmentsIs |-> "string", start |-> formatTime(11 * Sec),
     end |-> formatTime(25 * Sec), title |-> "t3", reason |-> "r3"]

\* The arrays in the answer of generate_clips
ClipArrays ==
    {<<>>, <<ClipWithSegments>>, <<ClipWithStartAndEnd>>, <<ClipWithSegments, ClipWithStartAndEnd>>,
     <<ClipWithSegmentsText>>}

\* if (c.segments): an array and a string that is not empty are truthy
SegmentsTruthy(c) == c.segmentsIs \in {"array", "string"}

\* if (c.segments) return c; return { ...c, segments: [{ start: c.start, end: c.end }] }
NormalizeClip(c) ==
    IF SegmentsTruthy(c) THEN c
    ELSE [c EXCEPT !.segments = <<[start |-> c.start, end |-> c.end]>>,
                   !.segmentsIs = "array"]

NormalizeClips(parsed) == [i \in 1..Len(parsed) |-> NormalizeClip(parsed[i])]

\* @input of the context textarea
typeContext ==
    /\ dialog.kind = "none"
    /\ analysisSettings' =
          [analysisSettings EXCEPT !.context = IF @ = "" THEN "talk" ELSE ""]
    /\ lastOp' = Op("typeContext", 0, FALSE)
    /\ UNCHANGED <<homeVars, editorVars, dialog, typed, updates, tcVars, status, isProcessing,
                   progressPercentage, run, clips, lastExportPath, lastAnalyzedSettings, useAdvancedAlignment,
                   inputPath, lastEmit>>

\* @click of the alignment toggle in the transcript section
toggleAdvancedAlignment ==
    /\ Interactive
    /\ useAdvancedAlignment' = ~useAdvancedAlignment
    /\ lastOp' = Op("toggleAdvancedAlignment", 0, FALSE)
    /\ UNCHANGED <<homeVars, editorVars, dialog, typed, updates, tcVars, status, isProcessing,
                   progressPercentage, run, clips, lastExportPath, analysisSettings, lastAnalyzedSettings,
                   inputPath, lastEmit>>

\* processFile, called by a click on the analyze button, up to its first
\* await: the store is emptied, which removes the transcript section.
processFile ==
    /\ dialog.kind = "none"
    /\ ~ProcessButtonDisabled
    /\ Len(run) < MaxRuns
    /\ IF inputPath = "" \/ ~hasApiKey
         THEN /\ status' = "Please provide file path and API key."
              /\ UNCHANGED <<segments, editorVars, isProcessing, progressPercentage, run>>
         ELSE /\ isProcessing' = TRUE
              /\ progressPercentage' = NULL
              /\ status' = "Preparing audio..."
              /\ segments' = <<>>
              /\ EditorBecomes(editingIndex, tempSegment, selectedIndices)
              /\ run' = Append(run, Run("processFile", "audio", <<>>, <<>>))
    /\ lastOp' = Op("processFile", 0, FALSE)
    /\ UNCHANGED <<translations, currentLanguage, targetLanguage, isTranslating, request,
                   sidecar, dialog, typed, updates, tcVars, clips, lastExportPath,
                   analysisSettings, lastAnalyzedSettings, useAdvancedAlignment, inputPath, lastEmit>>

\* processFile from the answers of prepare_audio_for_ai, remove_silence and
\* upload_file (or read_file_as_base64) to its await of analyze_audio
processFileAudio(k, ok, offsets) ==
    /\ k \in 1..Len(run)
    /\ run[k].fn = "processFile" /\ run[k].step = "audio"
    /\ IF ok
         THEN /\ status' = "Analyzing with AI..."
              /\ run' = [run EXCEPT ![k] = RunStep(k, "analyze", offsets, <<>>)]
              /\ progressPercentage' = 0
              /\ UNCHANGED isProcessing
         ELSE /\ status' = "Error"
              /\ RunEnds(k)
    /\ lastOp' = Op("processFileAudio", 0, FALSE)
    /\ UNCHANGED <<homeVars, editorVars, dialog, typed, updates, tcVars, clips, lastExportPath,
                   analysisSettings, lastAnalyzedSettings, useAdvancedAlignment, inputPath, lastEmit>>

\* processFile from the answer of analyze_audio on: the array is remapped,
\* installed and saved, and sent to align_transcript when the toggle is on.
processFileAnalyzed(k, response, parsed, written) ==
    /\ k \in 1..Len(run)
    /\ run[k].fn = "processFile" /\ run[k].step = "analyze"
    /\ IF response = "rejected"
         THEN /\ status' = "Error"
              /\ RunEnds(k)
              /\ UNCHANGED <<segments, sidecar, editorVars, lastAnalyzedSettings>>
       ELSE IF ~JsonMatch(response)
         THEN /\ status' = "Failed to find JSON in AI response."
              /\ RunEnds(k)
              /\ UNCHANGED <<segments, sidecar, editorVars, lastAnalyzedSettings>>
       ELSE IF ~ParsesToArray(response) \/ RemapThrows(parsed)
         THEN /\ status' = "Failed to parse segments from AI response."
              /\ RunEnds(k)
              /\ UNCHANGED <<segments, sidecar, editorVars, lastAnalyzedSettings>>
       ELSE /\ segments' = AdjustSegments(parsed, run[k].offsets)
            /\ EditorBecomes(editingIndex, tempSegment, selectedIndices)
            /\ lastAnalyzedSettings' = analysisSettings
            /\ sidecar' = saveTranscript(AdjustSegments(parsed, run[k].offsets), written)
            /\ IF useAdvancedAlignment /\ Len(parsed) > 0
                 THEN /\ status' = "Aligning transcript with local model..."
                      /\ run' = [run EXCEPT ![k] =
                                   RunStep(k, "align", run[k].offsets,
                                       AdjustSegments(parsed, run[k].offsets))]
                      /\ progressPercentage' = 100
                      /\ UNCHANGED isProcessing
                 ELSE /\ status' = "Analysis complete."
                      /\ RunEnds(k)
    /\ lastOp' = Op("processFileAnalyzed", 0, FALSE)
    /\ UNCHANGED <<translations, currentLanguage, targetLanguage, isTranslating, request,
                   dialog, typed, updates, tcVars, clips, lastExportPath, analysisSettings,
                   useAdvancedAlignment, inputPath, lastEmit>>

\* The status after a failure of align_transcript if the alignment had no
\* try block of its own: the catch block of the parse would take it.
AlignFailureTakenForParseFailure == "Failed to parse segments from AI response."

\* catch (e) { status.value = `Alignment failed: ${e}. Using original timestamps.` }
AlignFailureStatus == "Alignment failed. Using original timestamps."

\* processFile from the answer of align_transcript on
processFileAligned(k, ok, written) ==
    /\ k \in 1..Len(run)
    /\ run[k].fn = "processFile" /\ run[k].step = "align"
    /\ IF ok
         THEN /\ segments' = AlignedSegments(run[k].sent)
              /\ EditorBecomes(editingIndex, tempSegment, selectedIndices)
              /\ status' = "Alignment complete."
              /\ sidecar' = saveTranscript(AlignedSegments(run[k].sent), written)
         ELSE /\ status' = AlignFailureStatus
              /\ UNCHANGED <<segments, sidecar, editorVars>>
    /\ RunEnds(k)
    /\ lastOp' = Op("processFileAligned", 0, FALSE)
    /\ UNCHANGED <<translations, currentLanguage, targetLanguage, isTranslating, request,
                   dialog, typed, updates, tcVars, clips, lastExportPath, analysisSettings,
                   lastAnalyzedSettings, useAdvancedAlignment, inputPath, lastEmit>>

\* generateClips, called by the generate button of the clips section, up to
\* its await of generate_clips
generateClips ==
    /\ Interactive
    /\ ~isProcessing
    /\ Len(run) < MaxRuns
    /\ IF Len(segments) = 0
         THEN UNCHANGED <<status, isProcessing, progressPercentage, run>>
         ELSE /\ status' = "Generating clips..."
              /\ isProcessing' = TRUE
              /\ progressPercentage' = 0
              /\ run' = Append(run, Run("generateClips", "generate", <<>>, segments))
    /\ lastOp' = Op("generateClips", 0, FALSE)
    /\ UNCHANGED <<homeVars, editorVars, dialog, typed, updates, tcVars, clips, lastExportPath,
                   analysisSettings, lastAnalyzedSettings, useAdvancedAlignment, inputPath, lastEmit>>

\* generateClips from the answer of generate_clips on
generateClipsAnswer(k, response, parsed) ==
    /\ k \in 1..Len(run)
    /\ run[k].fn = "generateClips"
    /\ IF response = "rejected"
         THEN /\ status' = "Error generating clips"
              /\ UNCHANGED clips
       ELSE IF ~JsonMatch(response)
         THEN /\ status' = "Failed to find JSON in AI response."
              /\ UNCHANGED clips
       ELSE IF ~ParsesToArray(response)
         THEN /\ status' = "Failed to parse clips from AI response."
              /\ UNCHANGED clips
       ELSE /\ clips' = NormalizeClips(parsed)
            /\ status' = "Found clips."
    /\ RunEnds(k)
    /\ lastOp' = Op("generateClipsAnswer", 0, FALSE)
    /\ UNCHANGED <<homeVars, editorVars, dialog, typed, updates, tcVars, lastExportPath,
                   analysisSettings, lastAnalyzedSettings, useAdvancedAlignment, inputPath, lastEmit>>

----------------------------------------------------------------------------
(* Home.vue: cutVideo and exportClips *)

\* videoRef.value?.duration || Infinity
Infinity == -2

maxDurationOf(duration) == IF duration = NULL \/ duration = 0 THEN Infinity ELSE duration

\* The end with no clamp to the duration of the media
Unclamped(maxDuration, x) == x

\* Math.min(maxDuration, x)
MinOfDuration(maxDuration, x) == IF maxDuration = Infinity THEN x ELSE Min(maxDuration, x)

\* The padded sub-segment with a start that is not clamped to 0
PadWithoutClampAtZero(s, prePadding, postPadding, maxDuration) ==
    [start |-> formatTime(parseTime(s.start) - prePadding),
     end   |-> formatTime(MinOfDuration(maxDuration, parseTime(s.end) + postPadding))]

\* The sub-segment exportClips sends to export_clips for the sub-segment s
\* of a clip: padded, clamped and formatted.
PadAndClamp(s, prePadding, postPadding, maxDuration) ==
    [start |-> formatTime(Max(0, parseTime(s.start) - prePadding)),
     end   |-> formatTime(MinOfDuration(maxDuration, parseTime(s.end) + postPadding))]

\* clipSegments of exportClips
ClipSegments(clipsToExport, prePadding, postPadding, maxDuration) ==
    [i \in 1..Len(clipsToExport) |->
        [segments |-> [j \in 1..Len(clipsToExport[i].segments) |->
                         PadAndClamp(clipsToExport[i].segments[j], prePadding, postPadding,
                                     maxDuration)],
         label |-> clipsToExport[i].title,
         reason |-> clipsToExport[i].reason]]

\* segments.value.filter(t => Math.max(tStart, segStart) < Math.min(tEnd, segEnd))
Overlapping(transcript, segStart, segEnd) ==
    SelectSeq(transcript,
              LAMBDA t : Max(parseTime(t.start), segStart) < Min(parseTime(t.end), segEnd))

\* The cues pushed for one sub-segment from the transcript segments that
\* overlap it
CuesOf(overlapping, segStart, segEnd, currentOffset) ==
    [i \in 1..Len(overlapping) |->
        [start   |-> formatTime(currentOffset
                                 + (Max(parseTime(overlapping[i].start), segStart) - segStart)),
         end     |-> formatTime(currentOffset
                                 + (Min(parseTime(overlapping[i].end), segEnd) - segStart)),
         text    |-> overlapping[i].text,
         speaker |-> overlapping[i].speaker]]

\* A loop that advances the offset by what the cues of the sub-segment cover
AdvancedByIntersections(currentOffset, seg, transcript) ==
    LET cues == CuesOf(Overlapping(transcript, parseTime(seg.start), parseTime(seg.end)),
                       parseTime(seg.start), parseTime(seg.end), 0)
        Covered[i \in 0..Len(cues)] ==
            IF i = 0 THEN 0
            ELSE Covered[i - 1] + (parseTime(cues[i].end) - parseTime(cues[i].start))
    IN  currentOffset + Covered[Len(cues)]

\* currentOffset += duration
AdvancedOffset(currentOffset, seg, transcript) ==
    currentOffset + (parseTime(seg.end) - parseTime(seg.start))

\* clipTranscript of exportClips: the loop over the sub-segments of one clip
RECURSIVE ClipTranscriptFrom(_, _, _, _)
ClipTranscriptFrom(clipSegs, k, currentOffset, transcript) ==
    IF k > Len(clipSegs) THEN <<>>
    ELSE LET seg == clipSegs[k]
             segStart == parseTime(seg.start)
             segEnd == parseTime(seg.end)
         IN  CuesOf(Overlapping(transcript, segStart, segEnd), segStart, segEnd, currentOffset)
               \o ClipTranscriptFrom(clipSegs, k + 1,
                                     AdvancedOffset(currentOffset, seg, transcript), transcript)

ClipTranscript(clipSegs, transcript) == ClipTranscriptFrom(clipSegs, 1, 0, transcript)

\* The clips of the list whose subtitle file is still to be written: the
\* loop goes past the clips that have no cue.
RECURSIVE ToWrite(_, _)
ToWrite(clipSegments, transcript) ==
    IF Len(clipSegments) = 0 THEN <<>>
    ELSE IF Len(ClipTranscript(Head(clipSegments).segments, transcript)) > 0 THEN clipSegments
    ELSE ToWrite(Tail(clipSegments), transcript)

\* inputPath.value.replace(/\.[^/\\.]+$/, "") + "_clips"
OutputDir == "a_clips"

\* lastExportPath if it were assigned before the export
ExportPathSetAtOnce(done) == OutputDir

\* lastExportPath.value = outputDir, after the export and the subtitles
ExportPathAfter(done) == IF done THEN OutputDir ELSE lastExportPath

\* settings.preClipPadding and settings.postClipPadding
Paddings == {0, 2 * Sec}

\* videoRef.value?.duration
MediaDurations == {NULL, 20 * Sec, 28 * Sec}

\* Sub-segments of clips with end >= start >= 0, on and off the millisecond
SubSegments ==
    {sub \in [start : {<<0, 0>>, <<0, Sec>>, <<0, 11 * Sec + 2>>, <<0, 25 * Sec>>},
              end : {<<0, Sec>>, <<0, 19 * Sec>>, <<0, 25 * Sec>>, <<0, 30 * Sec + 1>>}] :
        parseTime(sub.end) >= parseTime(sub.start)}

\* exportClips, pad & clamp, on one sub-segment of a clip
PadAndClampCall ==
    \E sub \in SubSegments, prePadding \in Paddings \cup {500 * Ms},
       postPadding \in Paddings \cup {500 * Ms}, duration \in MediaDurations :
        /\ tcOp' = "padAndClamp"
        /\ tcIn' = <<sub, prePadding, postPadding, duration>>
        /\ tcOut' = PadAndClamp(sub, prePadding, postPadding, maxDurationOf(duration))
        /\ UNCHANGED <<tcOffsets, uiVars, runVars, lastEmit>>

\* Padded sub-segments as exportClips sends them: over two segments of the
\* transcript, over the second and the third, between the first and the
\* second, and after the last.
PaddedSubSegments ==
    {[start |-> formatTime(2 * Sec), end |-> formatTime(12 * Sec)],
     [start |-> formatTime(11 * Sec), end |-> formatTime(25 * Sec)],
     [start |-> formatTime(8 * Sec), end |-> formatTime(10 * Sec)],
     [start |-> formatTime(30 * Sec), end |-> formatTime(32 * Sec)]}

\* exportClips, subtitle slicing, on the sub-segments of one clip
ClipTranscriptCall ==
    \E clipSegs \in UNION {[1..n -> PaddedSubSegments] : n \in 1..2},
       transcript \in LoadedTranscripts :
        /\ tcOp' = "clipTranscript"
        /\ tcIn' = <<clipSegs, transcript>>
        /\ tcOut' = ClipTranscript(clipSegs, transcript)
        /\ UNCHANGED <<tcOffsets, uiVars, runVars, lastEmit>>

ClipExportNext ==
    \/ PadAndClampCall
    \/ ClipTranscriptCall

\* Sub-segments of clips as generate_clips answers with them
ClipSubSegments ==
    {[start |-> formatTime(0), end |-> formatTime(10 * Sec)],
     [start |-> formatTime(2 * Sec), end |-> formatTime(12 * Sec)],
     [start |-> formatTime(11 * Sec), end |-> formatTime(25 * Sec)],
     [start |-> formatTime(25 * Sec), end |-> formatTime(30 * Sec)]}

\* The transcripts of the session: those of the media, and one segment from
\* 2 s to 8 s
CueTranscripts ==
    LoadedTranscripts
      \cup {<<[start |-> formatTime(2 * Sec), end |-> formatTime(8 * Sec),
               speaker |-> "A", text |-> "w1"]>>}

\* exportClips on one clip, from its sub-segments to the cues of its
\* subtitle file
ClipCuesCall ==
    \E subs \in UNION {[1..n -> ClipSubSegments] : n \in 1..2},
       prePadding \in {0, Sec}, postPadding \in {0, Sec}, duration \in MediaDurations,
       transcript \in CueTranscripts :
        /\ tcOp' = "clipCues"
        /\ tcIn' = <<subs, prePadding, postPadding, duration, transcript>>
        /\ tcOut' = ClipTranscript(
                       [j \in 1..Len(subs) |->
                           PadAndClamp(subs[j], prePadding, postPadding,
                                       maxDurationOf(duration))],
                       transcript)
        /\ UNCHANGED <<tcOffsets, uiVars, runVars, lastEmit>>

----------------------------------------------------------------------------
(* Preview playback: onTimeUpdate of Home.vue *)

\* currentTime >= start && currentTime < end, with <= for <
InsideClosed(currentTime, start, end) == currentTime >= start /\ currentTime <= end

\* currentTime >= start && currentTime < end
InsideSegment(currentTime, start, end) == currentTime >= start /\ currentTime < end

\* The for loop of onTimeUpdate from the segment at i on: it stops at the
\* first segment that holds currentTime or starts after it
RECURSIVE ScanSegments(_, _, _)
ScanSegments(store, i, currentTime) ==
    IF i > Len(store) THEN [inside |-> FALSE, nextStart |-> -1]
    ELSE LET start == parseTime(store[i].start)
             end   == parseTime(store[i].end)
         IN  IF InsideSegment(currentTime, start, end)
                 THEN [inside |-> TRUE, nextStart |-> -1]
             ELSE IF start > currentTime
                 THEN [inside |-> FALSE, nextStart |-> start]
             ELSE ScanSegments(store, i + 1, currentTime)

\* What onTimeUpdate does to the video element: it sets currentTime, pauses
\* the playback or leaves the element alone
onTimeUpdate(store, currentTime) ==
    IF Len(store) = 0 THEN [does |-> "nothing", currentTime |-> currentTime]
    ELSE LET scan == ScanSegments(store, 1, currentTime)
         IN  IF ~scan.inside /\ scan.nextStart # -1
                 THEN [does |-> "seek", currentTime |-> scan.nextStart]
             ELSE IF ~scan.inside /\ scan.nextStart = -1
                      /\ currentTime > parseTime(store[Len(store)].end)
                 THEN [does |-> "pause", currentTime |-> currentTime]
             ELSE [does |-> "nothing", currentTime |-> currentTime]

\* The segments of a store under preview: apart, nested and adjacent ones
PreviewSegments ==
    { [start |-> formatTime(iv[1] * Sec), end |-> formatTime(iv[2] * Sec),
       speaker |-> "A", text |-> "w1"] :
        iv \in { <<0, 8>>, <<2, 5>>, <<10, 18>>, <<18, 28>> } }

\* The times the video element reports, in and between the segments
PreviewTimes == { k * Sec : k \in {0, 1, 2, 5, 8, 9, 10, 15, 18, 20, 28, 29} }

\* The timeupdate event of the video element
OnTimeUpdateCall ==
    \E store \in UNION {[1..n -> PreviewSegments] : n \in 0..MaxSegs},
       currentTime \in PreviewTimes :
        /\ tcOp' = "onTimeUpdate"
        /\ tcIn' = <<store, currentTime>>
        /\ tcOut' = onTimeUpdate(store, currentTime)
        /\ UNCHANGED <<tcOffsets, uiVars, runVars, lastEmit>>

\* :disabled="segments.length === 0", without isProcessing
CutButtonDisabledOnEmptyStore == Len(segments) = 0

\* :disabled="segments.length === 0 || isProcessing"
CutButtonDisabled == Len(segments) = 0 \/ isProcessing

\* cutVideo, called by the cut button of the transcript section, up to its
\* await of cut_video
cutVideo ==
    /\ Interactive
    /\ ~CutButtonDisabled
    /\ Len(run) < MaxRuns
    /\ status' = "Cutting media..."
    /\ isProcessing' = TRUE
    /\ progressPercentage' = NULL
    /\ run' = Append(run, Run("cutVideo", "cut", <<>>, <<>>))
    /\ lastOp' = Op("cutVideo", 0, FALSE)
    /\ UNCHANGED <<homeVars, editorVars, dialog, typed, updates, tcVars, clips, lastExportPath,
                   analysisSettings, lastAnalyzedSettings, useAdvancedAlignment, inputPath, lastEmit>>

\* cutVideo from the answer of cut_video on
cutVideoAnswer(k, ok) ==
    /\ k \in 1..Len(run)
    /\ run[k].fn = "cutVideo"
    /\ status' = IF ok THEN "Media cut successfully" ELSE "Error cutting media"
    /\ RunEnds(k)
    /\ lastOp' = Op("cutVideoAnswer", 0, FALSE)
    /\ UNCHANGED <<homeVars, editorVars, dialog, typed, updates, tcVars, clips, lastExportPath,
                   analysisSettings, lastAnalyzedSettings, useAdvancedAlignment, inputPath, lastEmit>>

\* ClipList.vue, toggleSelection(index)
ToggleSelection(selected, index) ==
    IF index \in selected THEN selected \ {index} ELSE selected \cup {index}

\* ClipList.vue, toggleAll
ToggleAll(selected, clipList) ==
    IF Cardinality(selected) = Len(clipList) THEN {}
    ELSE selected \cup {i - 1 : i \in 1..Len(clipList)}

\* An export of every clip, whatever is selected
EveryClip(clipList, selected) == clipList

\* ClipList.vue, handleExport: props.clips.filter((_, i) => selectedIndices.has(i))
\* when something is selected, else props.clips
ClipsToExport(clipList, selected) ==
    IF Cardinality(selected) > 0
      THEN LET indexed == [i \in 1..Len(clipList) |-> [clip |-> clipList[i], index |-> i - 1]]
               kept == SelectSeq(indexed, LAMBDA c : c.index \in selected)
           IN  [i \in 1..Len(kept) |-> kept[i].clip]
      ELSE clipList

\* The clip list is shown: the section of the clips and the list in it
ClipListShown == Interactive /\ Len(clips) > 0

\* @click of a clip of the list
toggleSelection(index) ==
    /\ ClipListShown
    /\ index \in 0..(Len(clips) - 1)
    /\ clipSelectedIndices' = ToggleSelection(clipSelectedIndices, index)
    /\ lastOp' = Op("toggleSelection", 0, FALSE)
    /\ UNCHANGED <<homeVars, editingIndex, tempSegment, selectedIndices, tempShared,
                   includeSubtitles, dialog, typed, updates, tcVars, runVars, lastEmit>>

\* @change of the Select All checkbox
toggleAll ==
    /\ ClipListShown
    /\ clipSelectedIndices' = ToggleAll(clipSelectedIndices, clips)
    /\ lastOp' = Op("toggleAll", 0, FALSE)
    /\ UNCHANGED <<homeVars, editingIndex, tempSegment, selectedIndices, tempShared,
                   includeSubtitles, dialog, typed, updates, tcVars, runVars, lastEmit>>

\* v-model="includeSubtitles" of the subtitles checkbox
toggleIncludeSubtitles ==
    /\ ClipListShown
    /\ includeSubtitles' = ~includeSubtitles
    /\ lastOp' = Op("toggleIncludeSubtitles", 0, FALSE)
    /\ UNCHANGED <<homeVars, editingIndex, tempSegment, selectedIndices, tempShared,
                   clipSelectedIndices, dialog, typed, updates, tcVars, runVars, lastEmit>>

\* handleExport of ClipList, which emits export, and exportClips of Home.vue
\* up to its await of export_clips
exportClips(prePadding, postPadding, duration) ==
    /\ ClipListShown
    /\ ~isProcessing
    /\ Len(run) < MaxRuns
    /\ lastEmit' = [event |-> "export",
                    clips |-> ClipsToExport(clips, clipSelectedIndices),
                    includeSubtitles |-> includeSubtitles]
    /\ LET clipsToExport == ClipsToExport(clips, clipSelectedIndices)
       IN  IF Len(clipsToExport) = 0
             THEN UNCHANGED <<status, run, isProcessing, progressPercentage>>
           ELSE IF \E i \in 1..Len(clipsToExport) : clipsToExport[i].segmentsIs # "array"
             THEN /\ status' = "Error exporting clips"
                  /\ progressPercentage' = NULL
                  /\ UNCHANGED <<run, isProcessing>>
           ELSE /\ run' = Append(run, Run("exportClips",
                                          IF includeSubtitles THEN "exportThenSubtitles"
                                          ELSE "export",
                                          <<>>,
                                          ClipSegments(clipsToExport, prePadding, postPadding,
                                                       maxDurationOf(duration))))
                /\ status' = "Exporting clips..."
                /\ isProcessing' = TRUE
                /\ progressPercentage' = NULL
    /\ lastOp' = Op("exportClips", 0, FALSE)
    /\ UNCHANGED <<homeVars, editorVars, dialog, typed, updates, tcVars, clips, lastExportPath,
                   analysisSettings, lastAnalyzedSettings, useAdvancedAlignment, inputPath>>

\* exportClips from the answer of export_clips to the first subtitle file
\* it writes, or to its end
exportClipsExported(k, ok) ==
    /\ k \in 1..Len(run)
    /\ run[k].fn = "exportClips" /\ run[k].step \in {"export", "exportThenSubtitles"}
    /\ LET toWrite == IF run[k].step = "export" THEN <<>>
                      ELSE ToWrite(run[k].sent, segments)
       IN  IF ~ok
             THEN /\ status' = "Error exporting clips"
                  /\ lastExportPath' = ExportPathAfter(FALSE)
                  /\ RunEnds(k)
           ELSE IF Len(toWrite) = 0
             THEN /\ status' = "Clips exported"
                  /\ lastExportPath' = ExportPathAfter(TRUE)
                  /\ RunEnds(k)
           ELSE /\ status' = "Generating subtitles..."
                /\ lastExportPath' = ExportPathAfter(FALSE)
                /\ run' = [run EXCEPT ![k] = RunStep(k, "subtitles", <<>>, toWrite)]
                /\ UNCHANGED <<isProcessing, progressPercentage>>
    /\ lastOp' = Op("exportClipsExported", 0, FALSE)
    /\ UNCHANGED <<homeVars, editorVars, dialog, typed, updates, tcVars, clips,
                   analysisSettings, lastAnalyzedSettings, useAdvancedAlignment, inputPath, lastEmit>>

\* exportClips from the answer of write_text_file for a subtitle file to
\* the next file it writes, or to its end
exportClipsSubtitle(k, ok) ==
    /\ k \in 1..Len(run)
    /\ run[k].fn = "exportClips" /\ run[k].step = "subtitles"
    /\ LET toWrite == ToWrite(Tail(run[k].sent), segments)
       IN  IF ~ok
             THEN /\ status' = "Error exporting clips"
                  /\ lastExportPath' = ExportPathAfter(FALSE)
                  /\ RunEnds(k)
           ELSE IF Len(toWrite) = 0
             THEN /\ status' = "Clips exported"
                  /\ lastExportPath' = ExportPathAfter(TRUE)
                  /\ RunEnds(k)
           ELSE /\ lastExportPath' = ExportPathAfter(FALSE)
                /\ run' = [run EXCEPT ![k] = RunStep(k, "subtitles", <<>>, toWrite)]
                /\ UNCHANGED <<status, isProcessing, progressPercentage>>
    /\ lastOp' = Op("exportClipsSubtitle", 0, FALSE)
    /\ UNCHANGED <<homeVars, editorVars, dialog, typed, updates, tcVars, clips,
                   analysisSettings, lastAnalyzedSettings, useAdvancedAlignment, inputPath, lastEmit>>

\* The clip generation, the cut and the export with their answers
ExportNext ==
    \/ generateClips
    \/ \E k \in 1..MaxRuns, parsed \in ClipArrays : generateClipsAnswer(k, "array", parsed)
    \/ cutVideo
    \/ \E k \in 1..MaxRuns, ok \in BOOLEAN : cutVideoAnswer(k, ok)
    \/ \E index \in 0..1 : toggleSelection(index)
    \/ toggleAll
    \/ toggleIncludeSubtitles
    \/ \E prePadding \in Paddings, postPadding \in Paddings, duration \in MediaDurations :
          exportClips(prePadding, postPadding, duration)
    \/ \E k \in 1..MaxRuns, ok \in BOOLEAN : exportClipsExported(k, ok)
    \/ \E k \in 1..MaxRuns, ok \in BOOLEAN : exportClipsSubtitle(k, ok)

----------------------------------------------------------------------------
(* Home.vue: the sidecar, loadTranscript on what saveTranscript writes *)

\* The values of context, glossary, speakerCount and removeFillerWords
SettingsValues ==
    [context : {"", "talk"}, glossary : {"", "names"}, speakerCount : {NULL, 2},
     removeFillerWords : BOOLEAN]

\* A value of the parsed sidecar with its typeof
Json(type, value) == [type |-> type, value |-> value]

\* JSON.parse of the JSON.stringify of the data saveTranscript writes: an
\* object of an array, two strings, a number or null, and a boolean.
SavedContent(segs, settings) ==
    [kind |-> "object",
     segments |-> Json("array", segs),
     context |-> Json("string", settings.context),
     glossary |-> Json("string", settings.glossary),
     speakerCount |-> IF settings.speakerCount = NULL THEN Json("null", NULL)
                      ELSE Json("number", settings.speakerCount),
     removeFillerWords |-> Json("boolean", settings.removeFillerWords)]

\* What read_text_file and JSON.parse give for a sidecar that is missing,
\* that does not parse, that is a bare array, that is a number, or that is
\* an object without the fields of a saved one.
OtherContent(kind, segs) ==
    IF kind = "array" THEN [kind |-> "array", segments |-> Json("array", segs)]
    ELSE IF kind = "object"
      THEN [kind |-> "object",
            segments |-> Json("undefined", <<>>),
            context |-> Json("undefined", ""),
            glossary |-> Json("undefined", ""),
            speakerCount |-> Json("undefined", NULL),
            removeFillerWords |-> Json("undefined", FALSE)]
    ELSE [kind |-> kind]

OtherKinds == {"missing", "unparsable", "array", "number", "object"}

\* The session after watch(inputPath) has reset it, with the settings the
\* user has at that time
ResetSession(settings, lastAnalyzed) ==
    [segments |-> <<>>, settings |-> settings, lastAnalyzedSettings |-> lastAnalyzed,
     status |-> "Ready"]

\* A test that takes numbers only
OnlyNumberAccepted(v) == v.type = "number"

\* typeof parsed.speakerCount === 'number' || parsed.speakerCount === null
SpeakerCountAccepted(v) == v.type = "number" \/ v.type = "null"

\* loadTranscript on the content of the sidecar, from the session s
loadTranscript(content, s) ==
    IF content.kind \in {"missing", "unparsable"} THEN s
    ELSE IF content.kind = "array"
      THEN [s EXCEPT !.segments = content.segments.value,
                     !.status = "Loaded existing transcript."]
    ELSE IF content.kind = "object"
      THEN LET loaded ==
                 [context |-> IF content.context.type = "string"
                              THEN content.context.value ELSE s.settings.context,
                  glossary |-> IF content.glossary.type = "string"
                               THEN content.glossary.value ELSE s.settings.glossary,
                  speakerCount |-> IF SpeakerCountAccepted(content.speakerCount)
                                   THEN content.speakerCount.value
                                   ELSE s.settings.speakerCount,
                  removeFillerWords |-> IF content.removeFillerWords.type = "boolean"
                                        THEN content.removeFillerWords.value
                                        ELSE s.settings.removeFillerWords]
           IN  [segments |-> IF content.segments.type = "array"
                             THEN content.segments.value ELSE s.segments,
                settings |-> loaded,
                lastAnalyzedSettings |-> loaded,
                status |-> "Loaded existing transcript and settings."]
    ELSE s

\* saveTranscript in a session with the store segs and the settings saved,
\* then loadTranscript in a session that was reset with other settings
SaveThenLoad ==
    \E segs \in LoadedTranscripts \ {<<>>}, saved \in SettingsValues,
       current \in SettingsValues :
        /\ tcOp' = "saveThenLoad"
        /\ tcIn' = <<segs, saved, ResetSession(current, current)>>
        /\ tcOut' = loadTranscript(SavedContent(segs, saved), ResetSession(current, current))
        /\ UNCHANGED <<tcOffsets, uiVars, runVars, lastEmit>>

\* loadTranscript on a sidecar that saveTranscript has not written
LoadOther ==
    \E kind \in OtherKinds, segs \in LoadedTranscripts, current \in SettingsValues :
        /\ tcOp' = kind
        /\ tcIn' = <<segs, current, ResetSession(current, DefaultSettings)>>
        /\ tcOut' = loadTranscript(OtherContent(kind, segs),
                                   ResetSession(current, DefaultSettings))
        /\ UNCHANGED <<tcOffsets, uiVars, runVars, lastEmit>>

SidecarNext ==
    \/ SaveThenLoad
    \/ LoadOther

----------------------------------------------------------------------------
(* Home.vue with detect_silence: filterSilentSegments *)

\* parseTime of filterSilentSegments: two parts, three parts, else 0
SilenceParseTime(t) ==
    IF Len(t) = 2 THEN t[1] * 60 + t[2]
    ELSE IF Len(t) = 3 THEN t[1] * 3600 + t[2] * 60 + t[3]
    ELSE 0

\* The loop over the silence intervals finds one that holds the segment
InSilence(seg, silence) ==
    \E i \in 1..Len(silence) :
        /\ SilenceParseTime(seg.start) >= silence[i].start
        /\ SilenceParseTime(seg.end) <= silence[i].end

filterSilentSegments(segs, silence) ==
    SelectSeq(segs, LAMBDA seg : ~InSilence(seg, silence))

\* Segments from 5 s to 9 s and from 12 s to 13 s, with their times as
\* M:S, as H:M:S and as bare seconds
SilenceSegments ==
    {[start |-> <<0, 5 * Sec>>, end |-> <<0, 9 * Sec>>, speaker |-> "A", text |-> "w1"],
     [start |-> <<5 * Sec>>, end |-> <<9 * Sec>>, speaker |-> "A", text |-> "w2"],
     [start |-> <<0, 0, 12 * Sec>>, end |-> <<0, 0, 13 * Sec>>, speaker |-> "B", text |-> "w3"]}

\* The intervals detect_silence answers with
SilenceIntervals ==
    {[start |-> 4 * Sec, end |-> 10 * Sec, duration |-> 6 * Sec],
     [start |-> 6 * Sec, end |-> 8 * Sec, duration |-> 2 * Sec],
     [start |-> 0, end |-> Sec, duration |-> Sec],
     [start |-> 12 * Sec, end |-> 13 * Sec, duration |-> Sec]}

\* processFile, filter step, on the parsed answer and the silence intervals
FilterSilentSegmentsCall ==
    \E segs \in UNION {[1..n -> SilenceSegments] : n \in 0..2},
       silence \in UNION {[1..n -> SilenceIntervals] : n \in 1..2} :
        /\ tcOp' = "filterSilentSegments"
        /\ tcIn' = <<segs, silence>>
        /\ tcOut' = filterSilentSegments(segs, silence)
        /\ UNCHANGED <<tcOffsets, uiVars, runVars, lastEmit>>

\* The media the user can select next: one with no sidecar, whose
\* read_text_file in loadTranscript is rejected
UnopenedMedia == {"b.mp4"} \ {inputPath}

\* update:modelValue of FileSelector and watch(inputPath): the session is
\* reset and loadTranscript finds no sidecar for the new media. The runs
\* and the requests in flight go on.
selectMedia(path) ==
    /\ dialog.kind = "none"
    /\ path \in UnopenedMedia
    /\ inputPath' = path
    /\ segments' = <<>>
    /\ translations' = [l \in {} |-> <<>>]
    /\ currentLanguage' = Original
    /\ clips' = <<>>
    /\ sidecar' = <<>>
    /\ EditorBecomes(editingIndex, tempSegment, selectedIndices)
    /\ lastOp' = Op("selectMedia", 0, FALSE)
    /\ UNCHANGED <<targetLanguage, isTranslating, request, dialog, typed, updates, tcVars,
                   status, isProcessing, progressPercentage, run, lastExportPath,
                   analysisSettings, lastAnalyzedSettings, useAdvancedAlignment, lastEmit>>

\* The analysis and the renaming of a speaker while the media is changed
MediaNext ==
    \/ \E path \in {"a.mp4", "b.mp4"} : selectMedia(path)
    \/ typeContext
    \/ toggleAdvancedAlignment
    \/ processFile
    \/ \E k \in 1..MaxRuns, ok \in BOOLEAN : processFileAudio(k, ok, <<>>)
    \/ \E k \in 1..MaxRuns, response \in {"array", "rejected"},
          parsed \in {<<LoadedSegment(1)>>, <<LoadedSegment(1), LoadedSegment(2)>>},
          written \in BOOLEAN : processFileAnalyzed(k, response, parsed, written)
    \/ \E k \in 1..MaxRuns, ok \in BOOLEAN, written \in BOOLEAN :
          processFileAligned(k, ok, written)
    \/ \E oldName \in {"A", "B"}, newName \in TypedNames : renameSpeaker(oldName, newName)
    \/ \E confirmed \in BOOLEAN : renameSpeakerAnswer(confirmed)

\* The translations and the analysis while the media is changed
MediaTranslateNext ==
    \/ \E path \in {"a.mp4", "b.mp4"} : selectMedia(path)
    \/ typeContext
    \/ processFile
    \/ \E k \in 1..MaxRuns, ok \in BOOLEAN : processFileAudio(k, ok, <<>>)
    \/ \E k \in 1..MaxRuns, response \in {"array", "rejected"},
          parsed \in {<<LoadedSegment(1)>>, <<LoadedSegment(1), LoadedSegment(2)>>} :
          processFileAnalyzed(k, response, parsed, TRUE)
    \/ \E lang \in {Original} \cup SUPPORTED_LANGUAGES : changeLanguage(lang)
    \/ \E langName \in SUPPORTED_LANGUAGES : selectLanguage(langName)
    \/ translateTranscript
    \/ translateTranscriptDone

\* The progress event of the backend while a command runs: the listener
\* sets progressPercentage to payload.percentage
progress(percentage) ==
    /\ Len(run) > 0
    /\ progressPercentage # percentage
    /\ progressPercentage' = percentage
    /\ status' = "Processing..."
    /\ lastOp' = Op("progress", 0, FALSE)
    /\ UNCHANGED <<homeVars, editorVars, dialog, typed, updates, tcVars, isProcessing, run, clips,
                   lastExportPath, analysisSettings, lastAnalyzedSettings,
                   useAdvancedAlignment, inputPath, lastEmit>>

\* The answers of the collaborators to the four processing operations
ProcessingAnswers ==
    \/ \E k \in 1..MaxRuns, ok \in BOOLEAN : processFileAudio(k, ok, <<>>)
    \/ \E k \in 1..MaxRuns, response \in {"array", "rejected"},
          parsed \in {<<LoadedSegment(1)>>, <<LoadedSegment(1), LoadedSegment(2)>>} :
          processFileAnalyzed(k, response, parsed, TRUE)
    \/ \E k \in 1..MaxRuns, ok \in BOOLEAN : processFileAligned(k, ok, TRUE)
    \/ \E k \in 1..MaxRuns, response \in {"array", "rejected"},
          parsed \in {<<ClipWithSegments>>, <<ClipWithSegments, ClipWithStartAndEnd>>} :
          generateClipsAnswer(k, response, parsed)
    \/ \E k \in 1..MaxRuns, ok \in BOOLEAN : cutVideoAnswer(k, ok)
    \/ \E k \in 1..MaxRuns, ok \in BOOLEAN : exportClipsExported(k, ok)
    \/ \E k \in 1..MaxRuns, ok \in BOOLEAN : exportClipsSubtitle(k, ok)

\* The four processing operations, their buttons and their answers
ProcessingNext ==
    \/ typeContext
    \/ toggleAdvancedAlignment
    \/ processFile
    \/ generateClips
    \/ cutVideo
    \/ toggleIncludeSubtitles
    \/ exportClips(0, 0, NULL)
    \/ progress(50)
    \/ ProcessingAnswers

\* The analysis and the clip generation with their answers
AnalysisNext ==
    \/ typeContext
    \/ toggleAdvancedAlignment
    \/ processFile
    \/ \E k \in 1..MaxRuns, ok \in BOOLEAN, offsets \in AnalysisOffsets :
          processFileAudio(k, ok, offsets)
    \/ \E k \in 1..MaxRuns, response \in AiResponses, parsed \in AnalysisArrays,
          written \in BOOLEAN : processFileAnalyzed(k, response, parsed, written)
    \/ \E k \in 1..MaxRuns, ok \in BOOLEAN, written \in BOOLEAN :
          processFileAligned(k, ok, written)
    \/ generateClips
    \/ \E k \in 1..MaxRuns, response \in AiResponses, parsed \in ClipArrays :
          generateClipsAnswer(k, response, parsed)

----------------------------------------------------------------------------
(* The session *)

\* The handlers of the selection toolbar and of the rows
SelectionNext ==
    \/ \E index \in 0..MaxSegs, shiftKey \in BOOLEAN : handleSegmentClick(index, shiftKey)
    \/ clearSelection
    \/ \E index \in 0..MaxSegs : deleteSegment(index)
    \/ \E confirmed \in BOOLEAN : deleteSegmentAnswer(confirmed)
    \/ deleteSelected
    \/ \E confirmed \in BOOLEAN : deleteSelectedAnswer(confirmed)
    \/ mergeSelected
    \/ \E index \in 0..MaxSegs : mergeDown(index)

\* The handlers of the edit form
EditingNext ==
    \/ \E index \in 0..MaxSegs : startEditing(index)
    \/ \E typedField \in TypedFields : typeInEditForm(typedField)
    \/ cancelEdit
    \/ saveEdit

\* The handlers of Home.vue around the Editor
OverlayNext ==
    \/ \E lang \in {Original} \cup SUPPORTED_LANGUAGES : changeLanguage(lang)
    \/ \E langName \in SUPPORTED_LANGUAGES : selectLanguage(langName)
    \/ translateTranscript
    \/ translateTranscriptDone
    \/ \E oldName \in Speakers \cup {"C"}, newName \in TypedNames : renameSpeaker(oldName, newName)
    \/ \E confirmed \in BOOLEAN : renameSpeakerAnswer(confirmed)

Next ==
    \/ SelectionNext
    \/ EditingNext
    \/ OverlayNext

\* The whole session
Spec == Init /\ [][Next]_vars

\* The starts of a store as the analysis, the edit form or a sidecar leave
\* them: "00:00", "01:30", "1:00:05" and "40"
JumpStarts == { <<0, 0>>, <<Sec, 30 * Sec>>, <<Sec, 0, 5 * Sec>>, <<40 * Sec>> }

JumpTranscripts ==
    { [i \in 1..n |-> [LoadedSegment(i) EXCEPT !.start = starts[i]]] :
        n \in 1..2, starts \in [1..2 -> JumpStarts] }

\* A session whose Editor shows such a store
InitJump ==
    /\ segments \in JumpTranscripts
    /\ sidecar = segments
    /\ translations = [l \in {} |-> <<>>]
    /\ currentLanguage = Original
    /\ targetLanguage = ""
    /\ isTranslating = FALSE
    /\ request = <<>>
    /\ editingIndex = NULL
    /\ tempSegment = <<>>
    /\ tempShared = FALSE
    /\ selectedIndices = <<>>
    /\ dialog = NoDialog
    /\ typed = 0
    /\ updates = 0
    /\ lastOp = Op("none", 0, FALSE)
    /\ tcOffsets = <<>>
    /\ tcIn = <<>>
    /\ tcOut = <<>>
    /\ tcOp = "none"
    /\ InitRun

JumpNext ==
    \/ \E index \in 0..MaxSegs, shiftKey \in BOOLEAN : handleSegmentClick(index, shiftKey)
    \/ clearSelection

\* The clicks on the rows of the Editor
SpecJump == InitJump /\ [][JumpNext]_vars

\* A session with its translations in which the user makes one change to a
\* store
InitOverlay ==
    /\ segments \in LoadedTranscripts
    /\ sidecar = segments
    /\ translations = [l \in {} |-> <<>>]
    /\ currentLanguage = Original
    /\ targetLanguage = ""
    /\ isTranslating = FALSE
    /\ request = <<>>
    /\ editingIndex = NULL
    /\ tempSegment = <<>>
    /\ tempShared = FALSE
    /\ selectedIndices = <<>>
    /\ dialog = NoDialog
    /\ typed = 0
    /\ updates = MaxUpdates - 1
    /\ lastOp = Op("none", 0, FALSE)
    /\ tcOffsets = <<>>
    /\ tcIn = <<>>
    /\ tcOut = <<>>
    /\ tcOp = "none"
    /\ InitRun

SpecOverlay == InitOverlay /\ [][Next]_vars

\* A session in which the user selects, merges and deletes segments of the
\* loaded transcript
SpecSelection == Init /\ [][SelectionNext]_vars

\* A session in which the user edits, merges down and deletes segments of the
\* loaded transcript
SpecEditing ==
    Init /\ [][EditingNext
                 \/ (\E index \in 0..MaxSegs : deleteSegment(index))
                 \/ (\E confirmed \in BOOLEAN : deleteSegmentAnswer(confirmed))
                 \/ (\E index \in 0..MaxSegs : mergeDown(index))]_vars

\* A session in which the user works with every handler of the Editor on the
\* loaded transcript
SpecEditor == Init /\ [][SelectionNext \/ EditingNext]_vars

\* The same with one change to the store
SpecEditorOnce == InitOverlay /\ [][SelectionNext \/ EditingNext]_vars

\* The handlers that change a store: those of the Editor and renameSpeaker
StoreNext ==
    \/ SelectionNext
    \/ EditingNext
    \/ \E oldName \in Speakers \cup {"C"}, newName \in TypedNames : renameSpeaker(oldName, newName)
    \/ \E confirmed \in BOOLEAN : renameSpeakerAnswer(confirmed)

\* A session on the loaded transcript in which the user makes one change to
\* the store, by the Editor or by renaming a speaker
SpecStoreOnce == InitOverlay /\ [][StoreNext]_vars

\* The handlers of the language selector and of the translation, and the
\* handlers of the rows that change the displayed store
TranslateNext ==
    \/ \E lang \in {Original} \cup SUPPORTED_LANGUAGES : changeLanguage(lang)
    \/ \E langName \in SUPPORTED_LANGUAGES : selectLanguage(langName)
    \/ translateTranscript
    \/ translateTranscriptDone
    \/ \E index \in 0..MaxSegs : deleteSegment(index)
    \/ \E confirmed \in BOOLEAN : deleteSegmentAnswer(confirmed)
    \/ \E index \in 0..MaxSegs : mergeDown(index)

\* A session in which the user translates the loaded transcript, switches
\* between the languages and deletes and merges rows
SpecTranslate == Init /\ [][TranslateNext]_vars

\* The session once translate_transcript has answered for a language: the
\* translation of the loaded transcript is installed and active.
InitTranslated ==
    /\ segments \in {t \in LoadedTranscripts : 0 < Len(t) /\ Len(t) <= MaxTranslatedSegs}
    /\ sidecar = segments
    /\ \E lang \in SUPPORTED_LANGUAGES :
          /\ \E parsed \in TranslateResponses(segments, lang) :
                translations = [l \in {lang} |-> parsed]
          /\ currentLanguage = lang
          /\ targetLanguage = lang
    /\ isTranslating = FALSE
    /\ request = <<>>
    /\ editingIndex = NULL
    /\ tempSegment = <<>>
    /\ tempShared = FALSE
    /\ selectedIndices = <<>>
    /\ dialog = NoDialog
    /\ typed = 0
    /\ updates = MaxUpdates - 1
    /\ lastOp = Op("translateTranscriptDone", 0, FALSE)
    /\ tcOffsets = <<>>
    /\ tcIn = <<>>
    /\ tcOut = <<>>
    /\ tcOp = "none"
    /\ InitRun

\* The handlers of the Editor and of the language selector
LanguagesNext ==
    \/ SelectionNext
    \/ EditingNext
    \/ \E lang \in {Original} \cup SUPPORTED_LANGUAGES : changeLanguage(lang)
    \/ \E langName \in SUPPORTED_LANGUAGES : selectLanguage(langName)

\* A session with a translation in which the user switches between the
\* languages and makes one change in the Editor
SpecLanguages == InitTranslated /\ [][LanguagesNext]_vars

\* A session in which the user analyses the media, again after a change of
\* the context, and generates clips
SpecAnalysis == Init /\ [][AnalysisNext]_vars

\* A session in which the user generates clips, cuts the media and exports
\* clips
SpecExport == Init /\ [][ExportNext]_vars

\* The calls of a pure function with no offsets
InitCalls == InitTime /\ tcOffsets = <<>>

\* The calls of the pad & clamp and of the subtitle slicing of exportClips
SpecClipExport == InitCalls /\ [][ClipExportNext]_vars

\* The timeupdate events of the preview
SpecPreview == InitCalls /\ [][OnTimeUpdateCall]_vars

\* A session whose media is changed while its handlers wait
SpecMedia == Init /\ [][MediaNext]_vars

\* A session whose media is changed while a translation is awaited
SpecMediaTranslate == Init /\ [][MediaTranslateNext]_vars

\* The four processing operations of a session
SpecProcessing == Init /\ [][ProcessingNext]_vars

\* The same, where every collaborator call returns or rejects in the end
SpecProcessingFair ==
    /\ Init
    /\ [][ProcessingNext]_vars
    /\ WF_vars(ProcessingAnswers)

\* The calls of exportClips on one clip
SpecClipCues == InitCalls /\ [][ClipCuesCall]_vars

\* The calls of filterSilentSegments
SpecSilence == InitCalls /\ [][FilterSilentSegmentsCall]_vars

\* The calls of loadTranscript on the contents a sidecar can have
SpecSidecar == InitCalls /\ [][SidecarNext]_vars

\* The calls of the time codec and of the offset map
SpecTime == InitTime /\ [][NextTime]_vars

----------------------------------------------------------------------------
(* Properties of the time codec and the offset map, under SpecTime *)

Abs(x) == IF x >= 0 THEN x ELSE -x

\* The offset of the rightmost breakpoint with min_time <= t, 0 without one
RightmostOffset(t, offsets) ==
    LET qualifying == {i \in 1..Len(offsets) : offsets[i].min_time <= t}
    IN  IF qualifying = {} THEN 0 ELSE offsets[SetMax(qualifying)].offset

\* The two time strings of every segment of the last remap, before and after
RemappedPairs ==
    {<<tcIn[i].start, tcOut[i].start>> : i \in 1..Len(tcIn)}
        \cup {<<tcIn[i].end, tcOut[i].end>> : i \in 1..Len(tcIn)}

TheScenario == <<[min_time |-> 0, offset |-> 0], [min_time |-> 30 * Sec, offset |-> 5 * Sec]>>

\* C2, as claimed: for every breakpoint list sorted ascending by min_time and
\* every timestamp t, adjustTimestamp returns exactly t plus the offset of the
\* rightmost breakpoint with min_time <= t (t + 0 when none qualifies).
C2_RemapIsExactSum ==
    tcOp = "remap" =>
        \A p \in RemappedPairs :
            parseTime(p[2]) = parseTime(p[1]) + RightmostOffset(parseTime(p[1]), tcOffsets)

\* C2, amended: adjustTimestamp returns the time string of t plus the offset
\* of the rightmost breakpoint with min_time <= t (t + 0 when none
\* qualifies), rounded to the nearest millisecond: a whole number of
\* milliseconds at most half a millisecond from the sum, and the sum itself
\* when that is a whole number of milliseconds, as in the scenario
\* offsets [(0,0),(30,5)] with remap(20) = 20 and remap(40) = 45.
C2_RemapIsSumRoundedToMs ==
    tcOp = "remap" =>
        \A p \in RemappedPairs :
            LET t   == parseTime(p[1])
                sum == t + RightmostOffset(t, tcOffsets)
            IN  /\ parseTime(p[2]) % Ms = 0
                /\ 2 * Abs(parseTime(p[2]) - sum) <= Ms
                /\ (sum % Ms = 0 => parseTime(p[2]) = sum)
                /\ (tcOffsets = TheScenario /\ t = 20 * Sec => parseTime(p[2]) = 20 * Sec)
                /\ (tcOffsets = TheScenario /\ t = 40 * Sec => parseTime(p[2]) = 45 * Sec)

\* The scenario has run: 00:20 stayed and 00:40 became 00:45.
C2_Witness ==
    /\ tcOp = "remap"
    /\ tcOffsets = TheScenario
    /\ Len(tcIn) = 1
    /\ tcIn[1].start = <<0, 20 * Sec>> /\ tcOut[1].start = <<0, 20 * Sec>>
    /\ tcIn[1].end = <<0, 40 * Sec>> /\ tcOut[1].end = <<0, 45 * Sec>>

StrictlyIncreasingMinTime(offsets) ==
    \A i \in 1..(Len(offsets) - 1) : offsets[i].min_time < offsets[i + 1].min_time

NonDecreasingOffset(offsets) ==
    \A i \in 1..(Len(offsets) - 1) : offsets[i].offset <= offsets[i + 1].offset

\* C3: for a breakpoint list with strictly increasing min_time and
\* non-decreasing offset, remap is non-decreasing: of two timestamps
\* t1 <= t2 remapped through the list by processFile, remap(t1) <= remap(t2);
\* so a segment with end >= start still has end >= start after the remap.
C3_RemapIsMonotone ==
    tcOp = "remap" /\ StrictlyIncreasingMinTime(tcOffsets) /\ NonDecreasingOffset(tcOffsets) =>
        /\ \A p, q \in RemappedPairs :
              parseTime(p[1]) <= parseTime(q[1]) => parseTime(p[2]) <= parseTime(q[2])
        /\ \A i \in 1..Len(tcIn) :
              parseTime(tcIn[i].end) >= parseTime(tcIn[i].start)
                  => parseTime(tcOut[i].end) >= parseTime(tcOut[i].start)

\* A segment that starts before the breakpoint at 30 s and ends on it was
\* remapped through two breakpoints with different offsets.
C3_Witness ==
    /\ tcOp = "remap"
    /\ Len(tcOffsets) = 2
    /\ StrictlyIncreasingMinTime(tcOffsets) /\ NonDecreasingOffset(tcOffsets)
    /\ tcOffsets[1].offset < tcOffsets[2].offset
    /\ Len(tcIn) = 1
    /\ parseTime(tcIn[1].start) < 30 * Sec /\ parseTime(tcIn[1].end) = 30 * Sec
    /\ parseTime(tcOut[1].end) - parseTime(tcOut[1].start)
          > parseTime(tcIn[1].end) - parseTime(tcIn[1].start)

\* C4: for every seconds value x >= 0, below and above one hour,
\* parseTime(formatTime(x)) equals x within 1 ms.
C4_RoundTripWithinOneMs ==
    tcOp = "formatTime" => Abs(parseTime(tcOut[1]) - tcIn[1]) <= Ms

\* A value above one hour and off the millisecond went through formatTime
\* and came back from parseTime as another value.
C4_Witness ==
    /\ tcOp = "formatTime"
    /\ tcIn[1] >= 3600 * Sec
    /\ tcIn[1] % Ms # 0
    /\ Len(tcOut[1]) = 3
    /\ parseTime(tcOut[1]) # tcIn[1]

----------------------------------------------------------------------------
(* Properties of the language overlay, under SpecOverlay *)

StoreMutations ==
    {"saveEdit", "deleteSegment", "deleteSelected", "mergeSelected", "mergeDown", "renameSpeaker"}

\* C1: every store mutation (edit, delete, deleteSelected, mergeDown,
\* mergeSelected and renameSpeaker) made while a translation language is
\* active changes only the store of that language: the Original store is
\* changed by a mutation only when Original is the active language, and the
\* stores of the other languages are never changed by it.
C1_MutationsChangeOnlyActiveStore ==
    [][lastOp'.op \in StoreMutations =>
        /\ (currentLanguage # Original => segments' = segments)
        /\ \A l \in DOMAIN translations :
              l # currentLanguage => l \in DOMAIN translations' /\ translations'[l] = translations[l]
    ]_vars

----------------------------------------------------------------------------
(* Properties of the handlers of Editor.vue, under SpecSelection and        *)
(* SpecEditing.  In a step, segs is props.segments as the handler reads it  *)
(* and displaySegments' is what the parent shows after the handler.         *)

\* The elements of segs at the indices outside removed, in their order
RECURSIVE WithoutFrom(_, _, _)
WithoutFrom(segs, removed, i) ==
    IF i >= Len(segs) THEN <<>>
    ELSE (IF i \in removed THEN <<>> ELSE <<segs[i + 1]>>) \o WithoutFrom(segs, removed, i + 1)

Without(segs, removed) == WithoutFrom(segs, removed, 0)

TextsOf(segs) == [k \in 1..Len(segs) |-> segs[k].text]

NothingEmitted ==
    /\ lastOp'.emitted = 0
    /\ UNCHANGED <<segments, translations>>

\* C5: mergeSelected over >= 2 valid indices, selected in any order, emits a
\* store in which one merged segment sits at the position of the smallest
\* selected index, with the start and the speaker of the smallest-index
\* segment, the end of the largest-index segment and the selected texts
\* joined by a space in ascending index order; the unselected segments,
\* those between selected ones too, are kept unchanged in their order and
\* their texts are not part of the merged text; with fewer than 2 selected
\* indices nothing is emitted and the selection is unchanged.
C5_MergeSelectedResult ==
    [][mergeSelected =>
        LET segs == displaySegments
            sel  == Range(selectedIndices)
            lo   == SetMin(sel)
            hi   == SetMax(sel)
            out  == displaySegments'
        IN  /\ Cardinality(sel) < 2 => NothingEmitted /\ UNCHANGED selectedIndices
            /\ Cardinality(sel) >= 2 /\ sel \subseteq Rows =>
                  /\ lastOp'.emitted = 1
                  /\ out[lo + 1] = [start   |-> segs[lo + 1].start,
                                    end     |-> segs[hi + 1].end,
                                    speaker |-> segs[lo + 1].speaker,
                                    text    |-> JoinWithSpace(TextsOf(Without(segs, Rows \ sel)))]
                  /\ Without(out, {lo}) = Without(segs, sel)
                  /\ \A j \in Rows \ sel :
                        segs[j + 1].text \notin Range(TextsOf(Without(segs, Rows \ sel)))
    ]_vars

\* The first and the third of three loaded segments were merged: the merged
\* segment is first, the second segment follows it unchanged.
C5_Witness ==
    /\ lastOp = [op |-> "mergeSelected", emitted |-> 1, threw |-> FALSE, len |-> 3]
    /\ Len(segments) = 2
    /\ segments[1] = [start |-> LoadedSegment(1).start, end |-> LoadedSegment(3).end,
                      speaker |-> "A", text |-> "w1 w3"]
    /\ segments[2] = LoadedSegment(2)
    /\ selectedIndices = <<>>

\* C6: mergeSelected over n >= 2 selected valid indices reduces the length
\* of the store by exactly n - 1.
C6_MergeSelectedLength ==
    [][mergeSelected /\ Len(selectedIndices) >= 2 /\ Range(selectedIndices) \subseteq Rows =>
        Len(displaySegments') = Len(displaySegments) - (Len(selectedIndices) - 1)
    ]_vars

\* Three loaded segments were merged into one.
C6_Witness ==
    /\ lastOp = [op |-> "mergeSelected", emitted |-> 1, threw |-> FALSE, len |-> 3]
    /\ Len(segments) = 1
    /\ segments[1].text = "w1 w2 w3"

\* C7: deleteSelected, once confirmed, emits in a single update the original
\* sequence without the elements at the selected indices, every other
\* element kept in its order (deleting {0, 2} of three elements leaves the
\* element of index 1); declined, it emits nothing and keeps the selection.
C7_DeleteSelectedResult ==
    [][\A confirmed \in BOOLEAN : deleteSelectedAnswer(confirmed) =>
        LET segs == displaySegments
            sel  == Range(selectedIndices)
        IN  IF confirmed
              THEN /\ lastOp'.emitted = 1
                   /\ displaySegments' = Without(segs, sel)
                   /\ (Len(segs) = 3 /\ sel = {0, 2} => displaySegments' = <<segs[2]>>)
              ELSE NothingEmitted /\ UNCHANGED selectedIndices
    ]_vars

\* The first and the third of three loaded segments were deleted together.
C7_Witness ==
    /\ lastOp = [op |-> "deleteSelected", emitted |-> 1, threw |-> FALSE, len |-> 3]
    /\ segments = <<LoadedSegment(2)>>

\* C8: mergeDown(i) for i not the last index emits a store one element
\* shorter in which position i holds start = segments[i].start,
\* end = segments[i+1].end, speaker = segments[i].speaker and
\* text = segments[i].text + " " + segments[i+1].text, all other elements
\* unchanged and in order; mergeDown on the last index emits nothing.
C8_MergeDownResult ==
    [][\A index \in 0..MaxSegs : mergeDown(index) =>
        LET segs == displaySegments
            out  == displaySegments'
        IN  IF index = Len(segs) - 1
              THEN NothingEmitted
              ELSE /\ lastOp'.emitted = 1
                   /\ Len(out) = Len(segs) - 1
                   /\ out[index + 1] = [start   |-> segs[index + 1].start,
                                        end     |-> segs[index + 2].end,
                                        speaker |-> segs[index + 1].speaker,
                                        text    |-> segs[index + 1].text \o " " \o segs[index + 2].text]
                   /\ Without(out, {index}) = Without(segs, {index, index + 1})
    ]_vars

\* The second of three loaded segments was merged with the third.
C8_Witness ==
    /\ lastOp = [op |-> "mergeDown", emitted |-> 1, threw |-> FALSE, len |-> 3]
    /\ Len(segments) = 2
    /\ segments[1] = LoadedSegment(1)
    /\ segments[2] = [start |-> LoadedSegment(2).start, end |-> LoadedSegment(3).end,
                      speaker |-> "B", text |-> "w2 w3"]

\* C9: deleteSegment(i) on a valid index, once the user confirms, emits the
\* original sequence without element i: one element shorter, the others
\* unchanged and in order; if the user declines, no update is emitted.
C9_DeleteSegmentResult ==
    [][\A confirmed \in BOOLEAN : deleteSegmentAnswer(confirmed) =>
        LET segs == displaySegments
            out  == displaySegments'
        IN  IF confirmed
              THEN dialog.index \in Rows =>
                     /\ lastOp'.emitted = 1
                     /\ Len(out) = Len(segs) - 1
                     /\ out = Without(segs, {dialog.index})
              ELSE NothingEmitted
    ]_vars

\* The second of three loaded segments was deleted.
C9_Witness ==
    /\ lastOp = [op |-> "deleteSegment", emitted |-> 1, threw |-> FALSE, len |-> 3]
    /\ segments = <<LoadedSegment(1), LoadedSegment(3)>>

\* C10: saveEdit emits a sequence of the length of the current store in
\* which only the position opened by startEditing differs and holds the
\* edited segment, nothing reordered; cancelEdit emits nothing and leaves the
\* store unchanged; after either the editor is no longer in edit mode.
C10_SaveAndCancelEdit ==
    [][/\ saveEdit =>
            LET segs == displaySegments
                out  == displaySegments'
            IN  /\ lastOp'.emitted = 1
                /\ Len(out) = Len(segs)
                /\ out[editingIndex + 1] = tempSegment[1]
                /\ \A j \in Rows \ {editingIndex} : out[j + 1] = segs[j + 1]
                /\ editingIndex' = NULL /\ tempSegment' = <<>>
       /\ cancelEdit =>
            /\ NothingEmitted
            /\ editingIndex' = NULL /\ tempSegment' = <<>>
    ]_vars

\* The first of three loaded segments was saved with a start typed after the
\* starts of the two that follow it, and stayed first.
C10_Witness ==
    /\ lastOp = [op |-> "saveEdit", emitted |-> 1, threw |-> FALSE, len |-> 3]
    /\ Len(segments) = 3
    /\ segments[1] = [LoadedSegment(1) EXCEPT !.start = formatTime(90 * Sec)]
    /\ segments[2] = LoadedSegment(2)
    /\ segments[3] = LoadedSegment(3)
    /\ editingIndex = NULL /\ tempSegment = <<>>

----------------------------------------------------------------------------
(* Properties of the Editor as a whole, under SpecEditorOnce, SpecEditor    *)
(* and SpecSelection                                                        *)

StartsInOrder(segs) ==
    \A i \in 1..(Len(segs) - 1) :
        /\ segs[i].start # <<>> /\ segs[i + 1].start # <<>>
        /\ parseTime(segs[i].start) <= parseTime(segs[i + 1].start)

C13_EndNotBeforeStart ==
    [][lastOp'.emitted = 1 =>
        \A i \in 1..Len(displaySegments') :
            parseTime(displaySegments'[i].end) >= parseTime(displaySegments'[i].start)
    ]_vars

\* An index the handler uses is outside 0..length-1 of props.segments.
StaleSelection == \E i \in Range(selectedIndices) : i \notin Rows

\* C14: deleteSelected (confirmed) and mergeSelected (of two indices or
\* more) with a selected index outside 0..length-1 fail and leave the
\* stores unchanged, emitting nothing.
C14_OutOfRangeIndexFails ==
    [][(StaleSelection /\ (deleteSelectedAnswer(TRUE)
                           \/ (mergeSelected /\ Len(selectedIndices) >= 2))) =>
        /\ lastOp'.threw
        /\ lastOp'.emitted = 0
        /\ UNCHANGED <<segments, translations>>
    ]_vars

\* C15: whenever the displayed store changes, editingIndex and
\* selectedIndices are cleared or designate the segments they designated
\* before.
C15_IndicesFollowTheStore ==
    [][displaySegments' # displaySegments =>
        /\ \A i \in Range(selectedIndices') :
              /\ i < Len(displaySegments') /\ i < Len(displaySegments)
              /\ displaySegments'[i + 1] = displaySegments[i + 1]
        /\ editingIndex' # NULL =>
              /\ editingIndex' < Len(displaySegments') /\ editingIndex' < Len(displaySegments)
              /\ displaySegments'[editingIndex' + 1] = displaySegments[editingIndex' + 1]
    ]_vars

----------------------------------------------------------------------------
(* Properties of renameSpeaker, under SpecStoreOnce *)

\* after is before with the speaker oldName relabelled to newName and
\* nothing else changed.
Relabelled(before, after, oldName, newName) ==
    /\ Len(after) = Len(before)
    /\ \A i \in 1..Len(before) :
          /\ after[i].start = before[i].start
          /\ after[i].end = before[i].end
          /\ after[i].text = before[i].text
          /\ after[i].speaker = IF before[i].speaker = oldName THEN newName
                                ELSE before[i].speaker

\* C16: renameSpeaker(oldName, newName) with a trimmed newName that is not
\* empty and not oldName relabels every segment of the speaker oldName to
\* the trimmed newName and changes nothing else; when the trimmed newName
\* labels a speaker already it asks, and relabels only on a confirmation;
\* declined, or with newName empty or equal to oldName, it leaves the store
\* and the sidecar unchanged.  The sidecar holds the relabelled store or
\* what it held.
C16_RenameSpeakerResult ==
    [][/\ \A oldName \in Speakers \cup {"C"}, newName \in TypedNames :
            renameSpeaker(oldName, newName) =>
              /\ UNCHANGED translations
              /\ IF oldName = Trim(newName) \/ Trim(newName) = ""
                      \/ Trim(newName) \in uniqueSpeakers
                    THEN UNCHANGED <<segments, sidecar>>
                    ELSE /\ Relabelled(segments, segments', oldName, Trim(newName))
                         /\ sidecar' \in {sidecar, segments'}
       /\ renameSpeakerAnswer(TRUE) =>
              /\ UNCHANGED translations
              /\ Relabelled(segments, segments', dialog.oldName, dialog.newName)
              /\ sidecar' \in {sidecar, segments'}
       /\ renameSpeakerAnswer(FALSE) => UNCHANGED <<segments, translations, sidecar>>
    ]_vars

\* The user has renamed A to B in a transcript of A, B, A and confirmed the
\* merge: the three segments are of B, the texts as loaded.
C16_Witness ==
    /\ lastOp.op = "renameSpeaker"
    /\ updates = MaxUpdates
    /\ Len(segments) = 3
    /\ \A i \in 1..3 : segments[i].speaker = "B" /\ segments[i].text = LoadedSegment(i).text
    /\ sidecar = segments

----------------------------------------------------------------------------
(* Properties of the translation, under SpecTranslate and SpecLanguages *)

C18_OneRequestInFlight ==
    /\ Len(request) <= 1
    /\ isTranslating <=> request # <<>>

\* A request is in flight while the user, who has deleted a row meanwhile,
\* looks at a disabled translate button.
C18_Witness ==
    /\ Len(request) = 1 /\ isTranslating
    /\ lastOp.op = "deleteSegment"
    /\ targetLanguage = request[1].lang
    /\ TranslateButtonDisabled

\* C19: while a request issued from the Original store is in flight, the
\* Original store is not changed.
C19_NoEditWhileInFlight ==
    [][request # <<>> => segments' = segments]_vars

\* C20: an update the Editor emits while a language is active leaves the
\* Original store, when that language is not Original, and the store of
\* every other language unchanged; changing the active language by the
\* selector or by picking a target language changes no store.
C20_StoresIndependent ==
    [][/\ lastOp'.emitted = 1 =>
            /\ currentLanguage # Original => segments' = segments
            /\ \A l \in DOMAIN translations :
                  l # currentLanguage =>
                      l \in DOMAIN translations' /\ translations'[l] = translations[l]
       /\ currentLanguage' # currentLanguage => UNCHANGED <<segments, translations>>
    ]_vars

\* The user has deleted selected rows of the translation: the translation
\* is shorter than the Original, which is as loaded.
C20_Witness ==
    /\ lastOp.op = "deleteSelected" /\ lastOp.emitted = 1
    /\ currentLanguage \in DOMAIN translations
    /\ Len(translations[currentLanguage]) < Len(segments)
    /\ segments = sidecar /\ Len(segments) = MaxTranslatedSegs

\* C21: when a translation request fails (translate_transcript rejects, or
\* its answer has no bracketed region or one that does not parse), the step
\* that handles the failure leaves the Original store, every translation
\* and the active language as they were, shows the failure in status and
\* sets isTranslating to false.
C21_TranslationFailureChangesNothing ==
    [][\A k \in 1..MaxRequests, response \in {"rejected", "noJson", "unparsable"} :
        translateTranscriptAnswer(k, response) =>
            /\ UNCHANGED <<segments, translations, currentLanguage>>
            /\ status' = "Translation failed"
            /\ isTranslating' = FALSE
    ]_vars

\* The translation to the picked language has failed: there is no
\* translation, the Original is shown and nothing is in flight.
C21_Witness ==
    /\ lastOp.op = "translateTranscriptDone"
    /\ status = "Translation failed"
    /\ targetLanguage \in SUPPORTED_LANGUAGES
    /\ DOMAIN translations = {}
    /\ currentLanguage = Original
    /\ Len(segments) > 0
    /\ request = <<>> /\ ~isTranslating

\* C24: when cut_video, export_clips or the write of a subtitle file fails,
\* the step that handles the failure shows the error in status and leaves
\* the sidecar, the Original store, the translations, the clips and
\* lastExportPath as they were.
C24_ExportFailureCommitsNothing ==
    [][\A k \in 1..MaxRuns :
        /\ cutVideoAnswer(k, FALSE) =>
              /\ status' = "Error cutting media"
              /\ UNCHANGED <<sidecar, segments, translations, clips, lastExportPath>>
        /\ (exportClipsExported(k, FALSE) \/ exportClipsSubtitle(k, FALSE)) =>
              /\ status' = "Error exporting clips"
              /\ UNCHANGED <<sidecar, segments, translations, clips, lastExportPath>>
    ]_vars

\* After an export that succeeded, the write of a subtitle file of a second
\* export has failed: the path of the first export is still shown.
C24_Witness ==
    /\ lastOp.op = "exportClipsSubtitle"
    /\ status = "Error exporting clips"
    /\ lastExportPath = OutputDir
    /\ Len(clips) = 2 /\ Len(segments) = MaxSegs /\ sidecar = segments
    /\ ~isProcessing /\ run = <<>>

\* C26: after every step that changes the Original store (an edit, a
\* deletion, a merge, a renaming of a speaker), the sidecar holds exactly the
\* store.
C26_SidecarHoldsTheStore ==
    [][segments' # segments => sidecar' = segments']_vars

\* C27: loadTranscript on the sidecar saveTranscript wrote sets segments,
\* context, glossary, speakerCount and removeFillerWords to the saved
\* values, whatever the settings were; on a bare array it sets the segments
\* to the array and leaves the settings; on a missing or unparsable sidecar
\* it leaves the reset session as it was.
C27_LoadRestoresWhatWasSaved ==
    /\ tcOp = "saveThenLoad" =>
          /\ tcOut.segments = tcIn[1]
          /\ tcOut.settings = tcIn[2]
    /\ tcOp = "array" =>
          /\ tcOut.segments = tcIn[1]
          /\ tcOut.settings = tcIn[2]
          /\ tcOut.lastAnalyzedSettings = tcIn[3].lastAnalyzedSettings
    /\ tcOp \in {"missing", "unparsable"} =>
          /\ tcOut = tcIn[3]
          /\ tcOut.segments = <<>>

\* A sidecar saved with no speaker count was loaded into a session whose
\* speaker count was 2 and whose other settings differed too.
C27_Witness ==
    /\ tcOp = "saveThenLoad"
    /\ Len(tcIn[1]) = MaxSegs
    /\ tcIn[2].speakerCount = NULL /\ tcIn[3].settings.speakerCount = 2
    /\ tcIn[2].context = "talk" /\ tcIn[3].settings.context = ""
    /\ tcIn[2].removeFillerWords /\ ~tcIn[3].settings.removeFillerWords
    /\ tcOut.settings.speakerCount = NULL

\* C28: filterSilentSegments returns the input segments, in their order,
\* that no silence interval holds (segment.start >= interval.start and
\* segment.end <= interval.end, with the times as the time codec parses
\* them).
C28_ContainedSegmentsRemoved ==
    tcOp = "filterSilentSegments" =>
        tcOut = SelectSeq(tcIn[1],
                          LAMBDA seg : ~\E i \in 1..Len(tcIn[2]) :
                                          /\ parseTime(seg.start) >= tcIn[2][i].start
                                          /\ parseTime(seg.end) <= tcIn[2][i].end)

\* The start and the end exportClips sends for a sub-segment are, to the
\* millisecond, max(0, start - prePad) and min(mediaDuration, end + postPad);
\* a duration that is not known clamps nothing.
PaddedAsStated ==
    LET start == parseTime(tcIn[1].start)
        end == parseTime(tcIn[1].end)
    IN  /\ parseTime(tcOut.start) = toFixed3(Max(0, start - tcIn[2]))
        /\ parseTime(tcOut.end) =
              toFixed3(IF tcIn[4] = NULL THEN end + tcIn[3] ELSE Min(tcIn[4], end + tcIn[3]))

RECURSIVE OffsetBefore(_, _)
OffsetBefore(clipSegs, k) ==
    IF k <= 1 THEN 0
    ELSE OffsetBefore(clipSegs, k - 1)
           + (parseTime(clipSegs[k - 1].end) - parseTime(clipSegs[k - 1].start))

\* The cues of the k-th sub-segment: one for each transcript segment that
\* intersects it with positive extent, at the offset plus the distance of the
\* intersection from the start of the sub-segment.
ExpectedCues(clipSegs, k, transcript) ==
    LET segStart == parseTime(clipSegs[k].start)
        segEnd == parseTime(clipSegs[k].end)
        hit == SelectSeq(transcript,
                         LAMBDA t : Min(parseTime(t.end), segEnd)
                                      - Max(parseTime(t.start), segStart) > 0)
    IN  [i \in 1..Len(hit) |->
            [start |-> formatTime(OffsetBefore(clipSegs, k)
                                   + Max(parseTime(hit[i].start), segStart) - segStart),
             end |-> formatTime(OffsetBefore(clipSegs, k)
                                 + Min(parseTime(hit[i].end), segEnd) - segStart),
             text |-> hit[i].text,
             speaker |-> hit[i].speaker]]

\* C30: the cues of a clip are the cues of its sub-segments in their order;
\* the cues of the k-th sub-segment are one for each transcript segment that
\* intersects it with positive extent, with the speaker and the text of the
\* segment, from offset_k + (intersectionStart - segStart) to
\* offset_k + (intersectionEnd - segStart), where offset_k is the sum of
\* the padded durations of the sub-segments before it.
C30_CuesAtClipLocalTimes ==
    tcOp = "clipTranscript" =>
        tcOut = IF Len(tcIn[1]) = 1 THEN ExpectedCues(tcIn[1], 1, tcIn[2])
                ELSE ExpectedCues(tcIn[1], 1, tcIn[2]) \o ExpectedCues(tcIn[1], 2, tcIn[2])

\* A clip of two sub-segments, 2 s to 12 s and 11 s to 25 s, on a transcript
\* of three segments: two cues each, and the first cue of the second
\* sub-segment starts at 10 s although the first two cues cover 8 s.
C30_Witness ==
    /\ tcOp = "clipTranscript"
    /\ Len(tcIn[1]) = 2 /\ Len(tcIn[2]) = 3
    /\ parseTime(tcIn[1][1].start) = 2 * Sec /\ parseTime(tcIn[1][2].start) = 11 * Sec
    /\ Len(tcOut) = 4
    /\ parseTime(tcOut[2].end) = 10 * Sec
    /\ parseTime(tcOut[3].start) = 10 * Sec
    /\ parseTime(tcOut[4].start) = 19 * Sec

\* The call of exportClips on a clip of one sub-segment from 0 s to 10 s
\* with the transcript of one segment from 2 s to 8 s, in a media whose
\* duration is not known, with no padding after the end
SliceScenario ==
    /\ tcOp = "clipCues"
    /\ Len(tcIn[1]) = 1
    /\ parseTime(tcIn[1][1].start) = 0 /\ parseTime(tcIn[1][1].end) = 10 * Sec
    /\ tcIn[3] = 0 /\ tcIn[4] = NULL
    /\ Len(tcIn[5]) = 1
    /\ parseTime(tcIn[5][1].start) = 2 * Sec /\ parseTime(tcIn[5][1].end) = 8 * Sec

\* The one cue emitted, from a to b seconds
OneCue(a, b) ==
    /\ Len(tcOut) = 1
    /\ parseTime(tcOut[1].start) = a * Sec /\ parseTime(tcOut[1].end) = b * Sec

\* C31 as stated: for a transcript segment [2,8] and a clip sub-segment
\* [0,10], the cue covers clip-local [2,8] with no padding and [3,9] with
\* prePadding = 1.
C31_CueShiftsByPaddingBeforeClamp ==
    SliceScenario =>
        /\ tcIn[2] = 0 => OneCue(2, 8)
        /\ tcIn[2] = Sec => OneCue(3, 9)

\* C31, amended: for a transcript segment [2,8] and a clip sub-segment
\* [0,10], the cue covers clip-local [2,8] with no padding, and with
\* prePadding = 1 too: the start of the sub-segment is clamped to 0, so the
\* origin of the clip does not move.
C31_CueShiftsByPaddingAfterClamp ==
    SliceScenario =>
        /\ tcIn[2] = 0 => OneCue(2, 8)
        /\ tcIn[2] = Sec => OneCue(2, 8)

\* The scenario with prePadding = 1
C31_Witness ==
    /\ SliceScenario
    /\ tcIn[2] = Sec
    /\ OneCue(2, 8)

\* The sub-segments of the call as exportClips sends them
SentSubSegments ==
    [j \in 1..Len(tcIn[1]) |->
        PadAndClamp(tcIn[1][j], tcIn[2], tcIn[3], maxDurationOf(tcIn[4]))]

\* C40: every cue of an exported clip has 0 <= start < end <= the total
\* duration of the padded sub-segments of the clip, and the running offset
\* is never negative, so that formatTime gets no negative value.
C40_CuesWithinClip ==
    tcOp = "clipCues" =>
        /\ \A k \in 1..(Len(SentSubSegments) + 1) : OffsetBefore(SentSubSegments, k) >= 0
        /\ \A i \in 1..Len(tcOut) :
              /\ 0 <= parseTime(tcOut[i].start)
              /\ parseTime(tcOut[i].start) < parseTime(tcOut[i].end)
              /\ parseTime(tcOut[i].end)
                    <= OffsetBefore(SentSubSegments, Len(SentSubSegments) + 1)

\* C32: after generateClips has installed an answer, every clip of the list
\* has a segments array: a clip of the answer that has one is kept as it is,
\* a clip with a start and an end only gets segments = [{start, end}] and
\* keeps its other fields.
C32_EveryClipHasSegments ==
    [][\A k \in 1..MaxRuns, parsed \in ClipArrays :
        generateClipsAnswer(k, "array", parsed) =>
            /\ Len(clips') = Len(parsed)
            /\ \A i \in 1..Len(parsed) :
                  /\ clips'[i].segmentsIs = "array"
                  /\ parsed[i].segmentsIs = "array" => clips'[i] = parsed[i]
                  /\ parsed[i].segmentsIs = "undefined" =>
                        /\ clips'[i].segments =
                              <<[start |-> parsed[i].start, end |-> parsed[i].end]>>
                        /\ clips'[i].title = parsed[i].title
                        /\ clips'[i].reason = parsed[i].reason
                        /\ clips'[i].start = parsed[i].start
                        /\ clips'[i].end = parsed[i].end
    ]_vars

\* The store is sorted by start
SortedByStart(store) ==
    \A i, j \in 1..Len(store) :
        i < j => parseTime(store[i].start) <= parseTime(store[j].start)

\* Some segment of the store holds the time
InsideSome(store, t) ==
    \E i \in 1..Len(store) :
        parseTime(store[i].start) <= t /\ t < parseTime(store[i].end)

\* The starts of the store after the time
LaterStarts(store, t) ==
    { parseTime(store[i].start) : i \in 1..Len(store) } \cap { x \in 0..(40 * Sec) : x > t }

\* C35: in the preview of a store sorted by start, a time inside some
\* segment changes nothing; a time in no segment with some segment starting
\* later sets currentTime to the smallest start after it; otherwise a time
\* past the end of the last segment pauses the playback.
C35_PreviewSkipsToNextSegment ==
    (tcOp = "onTimeUpdate" /\ SortedByStart(tcIn[1])) =>
        LET store == tcIn[1]
            t     == tcIn[2]
            later == LaterStarts(store, t)
        IN  /\ InsideSome(store, t) =>
                  tcOut = [does |-> "nothing", currentTime |-> t]
            /\ (~InsideSome(store, t) /\ later # {}) =>
                  /\ tcOut.does = "seek"
                  /\ tcOut.currentTime \in later
                  /\ \A x \in later : tcOut.currentTime <= x
            /\ (~InsideSome(store, t) /\ later = {} /\ Len(store) > 0
                   /\ t > parseTime(store[Len(store)].end)) =>
                  tcOut = [does |-> "pause", currentTime |-> t]

\* A time in the gap between two segments was moved to the next start, and a
\* store with a nested segment is among the inputs.
C35_Witness ==
    /\ tcOp = "onTimeUpdate"
    /\ Len(tcIn[1]) = 3
    /\ SortedByStart(tcIn[1])
    /\ parseTime(tcIn[1][2].end) < parseTime(tcIn[1][1].end)
    /\ ~InsideSome(tcIn[1], tcIn[2])
    /\ tcIn[2] = 9 * Sec
    /\ tcOut = [does |-> "seek", currentTime |-> 10 * Sec]

\* C36: at most one of the analysis, the cut, the clip generation and the
\* clip export is in flight at any time: an operation starts only while
\* isProcessing is false and no other one runs, and sets isProcessing.
C36_OneOperationInFlight ==
    [][/\ Len(run) <= 1 /\ Len(run') <= 1
       /\ Len(run) = 1 => isProcessing
       /\ Len(run') > Len(run) => (~isProcessing /\ run = <<>> /\ isProcessing')
    ]_vars

\* A cut is in flight, alone, in a session whose analysis and clip
\* generation have ended before.
C36_Witness ==
    /\ Len(run) = 1 /\ run[1].fn = "cutVideo"
    /\ isProcessing
    /\ Len(clips) > 0
    /\ lastAnalyzedSettings.context = "talk"

\* C37: every started processing operation ends in the end with
\* isProcessing false and progressPercentage null, on success and on every
\* failure path, when every collaborator call returns or rejects.
C37_OperationsEnd ==
    (isProcessing \/ run # <<>>) ~> (~isProcessing /\ progressPercentage = NULL /\ run = <<>>)

\* An export has ended on the failure of a subtitle file.
C37_Witness ==
    /\ lastOp.op = "exportClipsSubtitle"
    /\ status = "Error exporting clips"
    /\ ~isProcessing /\ progressPercentage = NULL /\ run = <<>>

\* C38: what a handler started for one media gives is neither installed
\* in the session of another media nor written to that media's sidecar:
\* when the answer to a run arrives after inputPath has changed, the store
\* and the sidecar of the selected media stay as they are.
C38_LateResultIsDropped ==
    [][(\E k \in 1..Len(run) : run[k].media # inputPath) /\ run' # run
          => UNCHANGED <<segments, sidecar>>]_vars

\* C39: every entry of the overlay is a completed translation of the
\* Original transcript of the session: none is left from before a
\* re-analysis or from the session of another media.
C39_EntriesTranslateTheOriginal ==
    \A l \in DOMAIN translations : translations[l] \in TranslateResponses(segments, l)

\* C34: a click on a row without the shift key emits jump-to with the
\* start of the segment in seconds as parseTime of the time codec reads it
\* (two parts M:S, three parts H:M:S, one part the seconds); a click with
\* the shift key emits nothing and toggles only the row in the selection.
C34_ClickJumpsToStart ==
    [][\A index \in 0..MaxSegs, shiftKey \in BOOLEAN :
          handleSegmentClick(index, shiftKey) =>
            IF shiftKey
            THEN /\ lastOp'.op = "select"
                 /\ \A i \in Rows \ {index} :
                       Has(selectedIndices', i) = Has(selectedIndices, i)
                 /\ Has(selectedIndices', index) = ~Has(selectedIndices, index)
                 /\ UNCHANGED <<segments, editingIndex, tempSegment>>
            ELSE /\ lastOp'.op = "jumpTo"
                 /\ lastOp'.time = parseTime(displaySegments[index + 1].start)
                 /\ UNCHANGED selectedIndices
    ]_vars

\* C33: the export ClipList emits carries the clips at the selected indices,
\* in the order of the list, when something is selected, and all clips when
\* nothing is, with the value of the subtitles checkbox, which is checked
\* at first.
C33_ExportEmitsTheSelection ==
    [][/\ lastOp.op = "none" => includeSubtitles
       /\ \A prePadding \in Paddings, postPadding \in Paddings, duration \in MediaDurations :
           exportClips(prePadding, postPadding, duration) =>
             /\ lastEmit'.event = "export"
             /\ lastEmit'.includeSubtitles = includeSubtitles
             /\ IF clipSelectedIndices = {} THEN lastEmit'.clips = clips
                ELSE LET at == {i \in clipSelectedIndices : i < Len(clips)}
                     IN  /\ Len(lastEmit'.clips) = Cardinality(at)
                         /\ \E f \in [1..Cardinality(at) -> at] :
                               /\ \A i, j \in 1..Cardinality(at) : i < j => f[i] < f[j]
                               /\ \A i \in 1..Cardinality(at) :
                                     lastEmit'.clips[i] = clips[f[i] + 1]
    ]_vars

\* Of two clips the second one was selected and exported, with the
\* subtitles checkbox unchecked.
C33_Witness ==
    /\ lastOp.op = "exportClips"
    /\ Len(clips) = 2 /\ clipSelectedIndices = {1}
    /\ lastEmit.event = "export" /\ lastEmit.clips = <<clips[2]>>
    /\ ~lastEmit.includeSubtitles /\ ~includeSubtitles

\* A segment with a start, an end, a speaker and a text
WellFormedSegment(seg) ==
    /\ seg.start # <<>> /\ seg.end # <<>>
    /\ seg.speaker # "undefined" /\ seg.text # "undefined"

\* C22: a step of processFile replaces the Original store only when it
\* installs a result (of the analysis or of the alignment), and the store it
\* installs is an array of well-formed segments; the click on the analyze
\* button and a step that fails leave the store as it was.
C22_StoreReplacedOnlyByValidResult ==
    [][(/\ lastOp'.op \in {"processFile", "processFileAudio", "processFileAnalyzed",
                           "processFileAligned"}
        /\ segments' # segments) =>
            /\ lastOp'.op \in {"processFileAnalyzed", "processFileAligned"}
            /\ \A i \in 1..Len(segments') : WellFormedSegment(segments'[i])
    ]_vars

C25_BadAnswerFailsTheRun ==
    [][/\ \A k \in 1..MaxRuns, parsed \in AnalysisArrays, written \in BOOLEAN :
           /\ processFileAnalyzed(k, "noJson", parsed, written) =>
                 /\ status' = "Failed to find JSON in AI response."
                 /\ UNCHANGED <<segments, sidecar, clips>>
                 /\ isProcessing' = FALSE /\ run' = <<>>
           /\ processFileAnalyzed(k, "unparsable", parsed, written) =>
                 /\ status' = "Failed to parse segments from AI response."
                 /\ UNCHANGED <<segments, sidecar, clips>>
                 /\ isProcessing' = FALSE /\ run' = <<>>
       /\ \A k \in 1..MaxRuns, parsed \in ClipArrays :
           /\ generateClipsAnswer(k, "noJson", parsed) =>
                 /\ status' = "Failed to find JSON in AI response."
                 /\ UNCHANGED <<segments, sidecar, clips>>
                 /\ isProcessing' = FALSE /\ run' = <<>>
           /\ generateClipsAnswer(k, "unparsable", parsed) =>
                 /\ status' = "Failed to parse clips from AI response."
                 /\ UNCHANGED <<segments, sidecar, clips>>
                 /\ isProcessing' = FALSE /\ run' = <<>>
    ]_vars

\* A second clip generation has failed to parse: the clips of the first
\* one are still there.
C25_Witness ==
    /\ lastOp.op = "generateClipsAnswer"
    /\ status = "Failed to parse clips from AI response."
    /\ Len(clips) = 2 /\ Len(segments) > 0
    /\ ~isProcessing /\ run = <<>>

====
